---- MODULE Spec2Model ----
(***************************************************************************)
(* The filter store of src/src/useFilter.ts (useFilter, useResponse,       *)
(* useEncoder, useUtils), the signer of src/src/useSigner.ts and the       *)
(* storage accessor of src/src/useStorage.ts.                              *)
(*                                                                         *)
(* JavaScript strings are TLA+ strings, read character by character with   *)
(* SubSeq. A JavaScript value is a record [t, num, str, xs]: t is its      *)
(* type, num a number in tenths (so that 1.5 is a value) or a boolean as   *)
(* 0/1, str a string, xs the elements of an array or the entries           *)
(* [k, v] of an object in insertion order.                                 *)
(***************************************************************************)
EXTENDS Integers, Sequences, FiniteSets, TLC

\* ------------------------------------------------------------------------
\* Strings
\* ------------------------------------------------------------------------

CharAt(s, i) == SubSeq(s, i, i)

\* The printable ASCII characters in code unit order: 32 to 95, and 97 to
\* 126 (a TLA+ string cannot hold the grave accent, code unit 96).
AsciiLow ==
    " !\"#$%&'()*+,-./0123456789:;<=>?@ABCDEFGHIJKLMNOPQRSTUVWXYZ[\\]^_"

AsciiHigh == "abcdefghijklmnopqrstuvwxyz{|}~"

\* The code unit of a character.
CodeOf ==
    [c \in {SubSeq(AsciiLow, i, i) : i \in 1..Len(AsciiLow)}
           \cup {SubSeq(AsciiHigh, i, i) : i \in 1..Len(AsciiHigh)} |->
        IF \E i \in 1..Len(AsciiLow) : SubSeq(AsciiLow, i, i) = c
        THEN 31 + (CHOOSE i \in 1..Len(AsciiLow) : SubSeq(AsciiLow, i, i) = c)
        ELSE 96 + (CHOOSE i \in 1..Len(AsciiHigh) : SubSeq(AsciiHigh, i, i) = c)]

\* The character of a code unit.
CharOfCode(code) ==
    IF code <= 95 THEN SubSeq(AsciiLow, code - 31, code - 31)
    ELSE SubSeq(AsciiHigh, code - 96, code - 96)

RECURSIVE StrLessFrom(_, _, _)
StrLessFrom(a, b, i) ==
    IF i > Len(b) THEN FALSE
    ELSE IF i > Len(a) THEN TRUE
    ELSE IF CharAt(a, i) # CharAt(b, i)
         THEN CodeOf[CharAt(a, i)] < CodeOf[CharAt(b, i)]
         ELSE StrLessFrom(a, b, i + 1)

\* a < b in the order Array.prototype.sort uses by default (code units).
StrLess(a, b) == StrLessFrom(a, b, 1)

RECURSIVE IndexOfFrom(_, _, _)
IndexOfFrom(s, c, i) ==
    IF i > Len(s) THEN 0
    ELSE IF CharAt(s, i) = c THEN i
    ELSE IndexOfFrom(s, c, i + 1)

\* String.prototype.includes for a one-character needle.
includes(s, c) == IndexOfFrom(s, c, 1) # 0

\* String.prototype.split for a one-character separator.
RECURSIVE split(_, _)
split(s, c) ==
    LET i == IndexOfFrom(s, c, 1)
    IN  IF i = 0 THEN <<s>>
        ELSE <<SubSeq(s, 1, i - 1)>> \o split(SubSeq(s, i + 1, Len(s)), c)

\* Array.prototype.join.
RECURSIVE join(_, _)
join(xs, sep) ==
    IF xs = <<>> THEN ""
    ELSE IF Len(xs) = 1 THEN xs[1]
    ELSE xs[1] \o sep \o join(Tail(xs), sep)

RECURSIVE TrimLeft(_)
TrimLeft(s) ==
    IF Len(s) > 0 /\ CharAt(s, 1) = " " THEN TrimLeft(SubSeq(s, 2, Len(s))) ELSE s

RECURSIVE TrimRight(_)
TrimRight(s) ==
    IF Len(s) > 0 /\ CharAt(s, Len(s)) = " "
    THEN TrimRight(SubSeq(s, 1, Len(s) - 1)) ELSE s

\* String.prototype.trim.
trim(s) == TrimRight(TrimLeft(s))

Digits == "0123456789"

IsDigit(c) == IndexOfFrom(Digits, c, 1) # 0

DigitValue(c) == IndexOfFrom(Digits, c, 1) - 1

RECURSIVE NatToString(_)
NatToString(n) ==
    IF n < 10 THEN CharAt(Digits, n + 1)
    ELSE NatToString(n \div 10) \o CharAt(Digits, (n % 10) + 1)

RECURSIVE AllDigitsFrom(_, _)
AllDigitsFrom(s, i) ==
    IF i > Len(s) THEN TRUE
    ELSE IsDigit(CharAt(s, i)) /\ AllDigitsFrom(s, i + 1)

AllDigits(s) == Len(s) > 0 /\ AllDigitsFrom(s, 1)

RECURSIVE DigitsToNat(_)
DigitsToNat(s) ==
    IF Len(s) = 0 THEN 0
    ELSE 10 * DigitsToNat(SubSeq(s, 1, Len(s) - 1)) + DigitValue(CharAt(s, Len(s)))

\* ------------------------------------------------------------------------
\* JavaScript values
\* ------------------------------------------------------------------------

Undefined == [t |-> "undefined", num |-> 0, str |-> "", xs |-> <<>>]
JSNull == [t |-> "null", num |-> 0, str |-> "", xs |-> <<>>]
Bool(b) == [t |-> "boolean", num |-> IF b THEN 1 ELSE 0, str |-> "", xs |-> <<>>]
\* The number tenths/10.
Tenths(tenths) == [t |-> "number", num |-> tenths, str |-> "", xs |-> <<>>]
\* The whole number k.
Num(k) == Tenths(10 * k)
\* Not-a-Number.
NaN == [t |-> "number", num |-> 0, str |-> "NaN", xs |-> <<>>]
Str(s) == [t |-> "string", num |-> 0, str |-> s, xs |-> <<>>]
Arr(xs) == [t |-> "array", num |-> 0, str |-> "", xs |-> xs]
Obj(entries) == [t |-> "object", num |-> 0, str |-> "", xs |-> entries]
Entry(k, v) == [k |-> k, v |-> v]

IsNaN(v) == v.t = "number" /\ v.str = "NaN"
IsInteger(v) == v.t = "number" /\ ~IsNaN(v) /\ v.num % 10 = 0

\* String(v) of a number: the shortest decimal form.
NumberToString(v) ==
    IF IsNaN(v) THEN "NaN"
    ELSE LET a == IF v.num < 0 THEN -v.num ELSE v.num
             body == NatToString(a \div 10) \o
                     (IF a % 10 = 0 THEN "" ELSE "." \o NatToString(a % 10))
         IN  IF v.num < 0 THEN "-" \o body ELSE body

\* A decimal numeral: an optional minus, digits, and at most one digit after a point.
IsNumeral(s) ==
    LET u == IF Len(s) > 0 /\ CharAt(s, 1) = "-" THEN SubSeq(s, 2, Len(s)) ELSE s
        p == IndexOfFrom(u, ".", 1)
    IN  IF p = 0 THEN AllDigits(u)
        ELSE /\ AllDigits(SubSeq(u, 1, p - 1))
             /\ Len(u) = p + 1
             /\ IsDigit(CharAt(u, p + 1))

NumeralValue(s) ==
    LET neg == Len(s) > 0 /\ CharAt(s, 1) = "-"
        u == IF neg THEN SubSeq(s, 2, Len(s)) ELSE s
        p == IndexOfFrom(u, ".", 1)
        a == IF p = 0 THEN 10 * DigitsToNat(u)
             ELSE 10 * DigitsToNat(SubSeq(u, 1, p - 1)) + DigitValue(CharAt(u, p + 1))
    IN  Tenths(IF neg THEN -a ELSE a)

\* Number(v): a number is itself, a numeral string its value, undefined and
\* any other string NaN.
Number(v) ==
    IF v.t = "number" THEN v
    ELSE IF v.t = "string" /\ IsNumeral(v.str) THEN NumeralValue(v.str)
    ELSE IF v.t = "null" THEN Num(0)
    ELSE IF v.t = "boolean" THEN Num(v.num)
    ELSE NaN

\* String(v) of a primitive.
String(v) ==
    CASE v.t = "string" -> v.str
      [] v.t = "number" -> NumberToString(v)
      [] v.t = "boolean" -> (IF v.num = 1 THEN "true" ELSE "false")
      [] v.t = "null" -> "null"
      [] OTHER -> "undefined"

\* ------------------------------------------------------------------------
\* Type predicates (imported from @v-termeh/utils) and objects
\* ------------------------------------------------------------------------

isString(v) == v.t = "string"
isNumber(v) == v.t = "number" /\ ~IsNaN(v)
isArray(v) == v.t = "array"
isObject(v) == v.t = "object"
\* A finite number, or a string that is a numeral.
isNumeric(v) == isNumber(v) \/ (isString(v) /\ IsNumeral(v.str))

\* Object.entries: of an array, its elements under their indices.
ObjectEntries(v) ==
    IF isArray(v) THEN [i \in 1..Len(v.xs) |-> Entry(NatToString(i - 1), v.xs[i])]
    ELSE v.xs

HasKey(o, k) == \E i \in 1..Len(o.xs) : o.xs[i].k = k

\* o[k], undefined when o has no such key.
Get(o, k) ==
    IF HasKey(o, k) THEN o.xs[CHOOSE i \in 1..Len(o.xs) : o.xs[i].k = k].v
    ELSE Undefined

\* o[k] = v: an existing key keeps its place, a new key goes last.
Put(o, k, v) ==
    IF HasKey(o, k)
    THEN Obj([i \in 1..Len(o.xs) |-> IF o.xs[i].k = k THEN Entry(k, v) ELSE o.xs[i]])
    ELSE Obj(Append(o.xs, Entry(k, v)))

\* {...a, ...b}
RECURSIVE PutAll(_, _)
PutAll(o, entries) ==
    IF entries = <<>> THEN o
    ELSE PutAll(Put(o, entries[1].k, entries[1].v), Tail(entries))

Spread(a, b) == PutAll(a, b.xs)

\* ------------------------------------------------------------------------
\* useUtils
\* ------------------------------------------------------------------------

isOrderType(v) == v = Str("asc") \/ v = Str("desc")

isValidOption(key, options) ==
    \/ isArray(options) /\ \E i \in 1..Len(options.xs) : options.xs[i] = Str(key)
    \/ options = Str("all")

IsZeroEntry(e) ==
    \/ e.v = Undefined
    \/ isArray(e.v) /\ Len(e.v.xs) = 0
    \/ isObject(e.v) /\ Len(e.v.xs) = 0

KeepEntry(e) == ~IsZeroEntry(e)

removeZero(v) ==
    IF isObject(v) THEN Obj(SelectSeq(v.xs, KeepEntry)) ELSE Obj(<<>>)

stringSafe(v, fallback) == IF isString(v) /\ v.str # "" THEN v ELSE fallback

positiveSafe(v, fallback) ==
    IF isNumeric(v) /\ Number(v).num > 0 THEN Number(v) ELSE fallback

arraySafe(v, fallback) == IF isArray(v) /\ Len(v.xs) > 0 THEN v ELSE fallback

objectSafe(v, fallback) == IF isObject(v) THEN v ELSE fallback

\* ------------------------------------------------------------------------
\* useSigner
\* ------------------------------------------------------------------------

SignerEncodeValue(v) ==
    IF v.t = "null" THEN "[null]"
    ELSE IF v.t = "undefined" THEN "[undefined]"
    ELSE String(v)

\* Array.prototype.sort with the default comparison: a stable insertion
\* into the sorted prefix.
RECURSIVE InsertSorted(_, _)
InsertSorted(sorted, x) ==
    IF sorted = <<>> THEN <<x>>
    ELSE IF StrLess(x, sorted[1]) THEN <<x>> \o sorted
    ELSE <<sorted[1]>> \o InsertSorted(Tail(sorted), x)

\* flatten that returns its tokens unsorted.
sort_Identity(xs) == xs

RECURSIVE sort(_)
sort(xs) ==
    IF xs = <<>> THEN <<>>
    ELSE InsertSorted(sort(SubSeq(xs, 1, Len(xs) - 1)), xs[Len(xs)])

RECURSIVE flatten(_, _)
RECURSIVE FlattenElements(_, _)
RECURSIVE FlattenEntries(_, _)

\* The loop over the elements of an array value (lines 59-65).
FlattenElements(els, key) ==
    IF els = <<>> THEN <<>>
    ELSE (IF isObject(els[1]) \/ isArray(els[1])
          THEN flatten(els[1], key)
          ELSE <<key \o ":" \o SignerEncodeValue(els[1])>>)
         \o FlattenElements(Tail(els), key)

\* The loop over Object.entries(obj) (lines 53-69).
FlattenEntries(entries, prefix) ==
    IF entries = <<>> THEN <<>>
    ELSE LET k == entries[1].k
             v == entries[1].v
             key == IF prefix # "" THEN prefix \o "." \o k ELSE k
         IN  (IF isObject(v) THEN flatten(v, key)
              ELSE IF isArray(v) THEN FlattenElements(v.xs, key)
              ELSE <<key \o ":" \o SignerEncodeValue(v)>>)
             \o FlattenEntries(Tail(entries), prefix)

flatten(obj, prefix) ==
    IF ~isObject(obj) /\ ~isArray(obj)
    THEN <<(IF prefix # "" THEN prefix ELSE "value") \o ":" \o SignerEncodeValue(obj)>>
    ELSE sort(FlattenEntries(ObjectEntries(obj), prefix))

\* crypto.subtle.digest("SHA-256", .) rendered in hexadecimal: a string that
\* is never empty and differs for different messages.
SHA256Hex(message) == "sha256(" \o message \o ")"

\* The value sign resolves to, when the digest is computed.
sign(data) == SHA256Hex(join(flatten(data, ""), "|"))

\* validate that takes the empty signature for the signature of anything.
validate_EmptyMatches(data, signature) == signature = "" \/ sign(data) = signature

\* validate that never finds the signature unchanged.
validate_AlwaysDiffers(data, signature) == FALSE

\* The value validate resolves to, when the digest is computed.
validate(data, signature) == sign(data) = signature

\* ------------------------------------------------------------------------
\* Percent-encoding and URLSearchParams
\* ------------------------------------------------------------------------

HexDigits == "0123456789ABCDEF"

IsHex(c) == IndexOfFrom(HexDigits, c, 1) # 0 \/ IndexOfFrom("abcdef", c, 1) # 0

HexValue(c) ==
    IF IndexOfFrom(HexDigits, c, 1) # 0 THEN IndexOfFrom(HexDigits, c, 1) - 1
    ELSE IndexOfFrom("abcdef", c, 1) + 9

\* "%XX" for a character.
PercentOf(c) ==
    "%" \o CharAt(HexDigits, (CodeOf[c] \div 16) + 1)
        \o CharAt(HexDigits, (CodeOf[c] % 16) + 1)

IsAlnum(c) ==
    \/ (CodeOf[c] >= 48 /\ CodeOf[c] <= 57)
    \/ (CodeOf[c] >= 65 /\ CodeOf[c] <= 90)
    \/ (CodeOf[c] >= 97 /\ CodeOf[c] <= 122)

RECURSIVE encodeURIComponent(_)
encodeURIComponent(s) ==
    IF Len(s) = 0 THEN ""
    ELSE LET c == CharAt(s, 1)
         IN  (IF IsAlnum(c) \/ includes("-_.!~*'()", c) THEN c ELSE PercentOf(c))
             \o encodeURIComponent(SubSeq(s, 2, Len(s)))

\* A percent sign that two hexadecimal digits do not follow makes
\* decodeURIComponent throw a URIError.
RECURSIVE DecodeURIThrows(_)
DecodeURIThrows(s) ==
    IF Len(s) = 0 THEN FALSE
    ELSE IF CharAt(s, 1) # "%" THEN DecodeURIThrows(SubSeq(s, 2, Len(s)))
    ELSE \/ Len(s) < 3
         \/ ~IsHex(CharAt(s, 2))
         \/ ~IsHex(CharAt(s, 3))
         \/ DecodeURIThrows(SubSeq(s, 4, Len(s)))

RECURSIVE decodeURIComponent(_)
decodeURIComponent(s) ==
    IF Len(s) = 0 THEN ""
    ELSE IF CharAt(s, 1) # "%"
         THEN CharAt(s, 1) \o decodeURIComponent(SubSeq(s, 2, Len(s)))
         ELSE CharOfCode(16 * HexValue(CharAt(s, 2)) + HexValue(CharAt(s, 3)))
              \o decodeURIComponent(SubSeq(s, 4, Len(s)))

\* The application/x-www-form-urlencoded serializer of one name or value.
RECURSIVE FormEncode(_)
FormEncode(s) ==
    IF Len(s) = 0 THEN ""
    ELSE LET c == CharAt(s, 1)
         IN  (IF IsAlnum(c) \/ includes("*-._", c) THEN c
              ELSE IF c = " " THEN "+"
              ELSE PercentOf(c))
             \o FormEncode(SubSeq(s, 2, Len(s)))

\* The urlencoded parser of one name or value: a plus is a space, and a
\* percent sign that two hexadecimal digits do not follow stands for itself.
RECURSIVE FormDecode(_)
FormDecode(s) ==
    IF Len(s) = 0 THEN ""
    ELSE LET c == CharAt(s, 1)
         IN  IF c = "+" THEN " " \o FormDecode(SubSeq(s, 2, Len(s)))
             ELSE IF c = "%" /\ Len(s) >= 3 /\ IsHex(CharAt(s, 2)) /\ IsHex(CharAt(s, 3))
             THEN CharOfCode(16 * HexValue(CharAt(s, 2)) + HexValue(CharAt(s, 3)))
                  \o FormDecode(SubSeq(s, 4, Len(s)))
             ELSE c \o FormDecode(SubSeq(s, 2, Len(s)))

\* A URLSearchParams object is its list of [k, v] pairs of strings.
\* URLSearchParams.prototype.set: the first pair of that name takes the
\* value and the others go; a new name goes last.
ParamsSet(params, k, v) ==
    IF \E i \in 1..Len(params) : params[i].k = k
    THEN LET first == CHOOSE i \in 1..Len(params) :
                          /\ params[i].k = k
                          /\ \A j \in 1..(i - 1) : params[j].k # k
             kept == {i \in 1..Len(params) : params[i].k # k \/ i = first}
             at(n) == CHOOSE i \in kept : Cardinality({j \in kept : j < i}) = n - 1
         IN  [n \in 1..Cardinality(kept) |->
                 IF at(n) = first THEN Entry(k, v) ELSE params[at(n)]]
    ELSE Append(params, Entry(k, v))

ParamsHas(params, k) == \E i \in 1..Len(params) : params[i].k = k

\* URLSearchParams.prototype.get: the first value of that name.
ParamsGet(params, k) ==
    params[CHOOSE i \in 1..Len(params) :
               /\ params[i].k = k
               /\ \A j \in 1..(i - 1) : params[j].k # k].v

RECURSIVE ParamsToString(_)
ParamsToString(params) ==
    IF params = <<>> THEN ""
    ELSE FormEncode(params[1].k) \o "=" \o FormEncode(params[1].v)
         \o (IF Len(params) > 1 THEN "&" \o ParamsToString(Tail(params)) ELSE "")

ParsePair(piece) ==
    LET i == IndexOfFrom(piece, "=", 1)
    IN  IF i = 0 THEN Entry(FormDecode(piece), "")
        ELSE Entry(FormDecode(SubSeq(piece, 1, i - 1)),
                   FormDecode(SubSeq(piece, i + 1, Len(piece))))

NonEmptyString(x) == x # ""

\* new URLSearchParams(query)
ParamsParse(query) ==
    LET q == IF Len(query) > 0 /\ CharAt(query, 1) = "?"
             THEN SubSeq(query, 2, Len(query)) ELSE query
        pieces == SelectSeq(split(q, "&"), NonEmptyString)
    IN  [i \in 1..Len(pieces) |-> ParsePair(pieces[i])]

\* ------------------------------------------------------------------------
\* useEncoder
\* ------------------------------------------------------------------------

\* v.k of any value: undefined unless v is an object that has the key.
Prop(v, k) == IF isObject(v) THEN Get(v, k) ELSE Undefined

EncoderEncodeValue(v) ==
    IF v.t = "null" \/ v.t = "undefined" THEN encodeURIComponent("[null]")
    ELSE encodeURIComponent(String(v))

decodeValue(v) == decodeURIComponent(v)

\* inferType without the case of "[null]".
inferType_NullAsString(value) ==
    LET d == decodeValue(value)
    IN  IF d = "true" THEN Bool(TRUE)
        ELSE IF d = "false" THEN Bool(FALSE)
        ELSE IF isNumeric(Str(d)) THEN Number(Str(d))
        ELSE Str(d)

inferType(value) ==
    LET d == decodeValue(value)
    IN  IF d = "true" THEN Bool(TRUE)
        ELSE IF d = "false" THEN Bool(FALSE)
        ELSE IF d = "[null]" THEN JSNull
        ELSE IF isNumeric(Str(d)) THEN Number(Str(d))
        ELSE Str(d)

encodeArray(value) ==
    join([i \in 1..Len(value.xs) |-> EncoderEncodeValue(value.xs[i])], ",")

decodeArray(encoded) ==
    LET parts == split(encoded, ",")
    IN  Arr([i \in 1..Len(parts) |-> inferType(parts[i])])

encodeObject(value) ==
    join([i \in 1..Len(value.xs) |->
             EncoderEncodeValue(Str(value.xs[i].k)) \o ":"
                 \o EncoderEncodeValue(value.xs[i].v)], ",")

\* The first and the second piece of part.split(":"); a missing second piece
\* is undefined, which the code tests like the empty string.
FirstOf(part) == split(part, ":")[1]
SecondOf(part) == IF Len(split(part, ":")) >= 2 THEN split(part, ":")[2] ELSE ""

RECURSIVE DecodeObjectParts(_, _)
DecodeObjectParts(obj, parts) ==
    IF parts = <<>> THEN obj
    ELSE LET k == FirstOf(parts[1])
             v == SecondOf(parts[1])
         IN  DecodeObjectParts(
                 IF trim(k) # "" /\ v # ""
                 THEN Put(obj, decodeValue(trim(k)), inferType(v))
                 ELSE obj,
                 Tail(parts))

decodeObject(encoded) == DecodeObjectParts(Obj(<<>>), split(encoded, ","))

encodeSorts(sorts) ==
    join([i \in 1..Len(sorts.xs) |->
             EncoderEncodeValue(Prop(sorts.xs[i], "field")) \o ":"
                 \o EncoderEncodeValue(Prop(sorts.xs[i], "order"))], ",")

SortOf(field, order) == Obj(<<Entry("field", Str(field)), Entry("order", Str(order))>>)

IsSortPart(i) == i # "" /\ includes(i, ":")

\* The map step of decodeSorts without the test of the order.
DecodeSortPart_AnyOrder(i) ==
    LET field == FirstOf(i)
        order == SecondOf(i)
    IN  IF trim(field) = "" \/ order = "" THEN Undefined
        ELSE LET f == decodeValue(trim(field))
                 o == decodeValue(order)
             IN  IF f # "" THEN SortOf(f, o) ELSE Undefined

\* The map step of decodeSorts: the Sort of one part, or undefined.
DecodeSortPart(i) ==
    LET field == FirstOf(i)
        order == SecondOf(i)
    IN  IF trim(field) = "" \/ order = "" THEN Undefined
        ELSE LET f == decodeValue(trim(field))
                 o == decodeValue(order)
             IN  IF f # "" /\ isOrderType(Str(o)) THEN SortOf(f, o) ELSE Undefined

IsDefined(v) == v # Undefined

decodeSorts(encoded) ==
    LET parts == SelectSeq(split(encoded, ","), IsSortPart)
    IN  Arr(SelectSeq([i \in 1..Len(parts) |-> DecodeSortPart(parts[i])], IsDefined))

\* decodeSorts throws when decodeValue throws on a field or an order.
DecodeSortsThrows(encoded) ==
    LET parts == SelectSeq(split(encoded, ","), IsSortPart)
    IN  \E i \in 1..Len(parts) :
            /\ trim(FirstOf(parts[i])) # ""
            /\ SecondOf(parts[i]) # ""
            /\ \/ DecodeURIThrows(trim(FirstOf(parts[i])))
               \/ DecodeURIThrows(SecondOf(parts[i]))

\* The loop of encode over Object.entries(state.filters) (lines 467-475).
RECURSIVE EncodeFilters(_, _)
EncodeFilters(params, entries) ==
    IF entries = <<>> THEN params
    ELSE LET key == entries[1].k
             value == entries[1].v
         IN  EncodeFilters(
                 ParamsSet(params, key,
                     IF isArray(value) THEN encodeArray(value)
                     ELSE IF isObject(value) THEN encodeObject(value)
                     ELSE EncoderEncodeValue(value)),
                 Tail(entries))

\* The URLSearchParams that encode builds, before it is serialized.
EncodeParams(state) ==
    LET page == Prop(state, "page")
        limit == Prop(state, "limit")
        search == Prop(state, "search")
        sorts == Prop(state, "sorts")
        filters == Prop(state, "filters")
        p1 == IF isNumber(page) /\ page.num > 0
              THEN ParamsSet(<<>>, "page", String(page)) ELSE <<>>
        p2 == IF isNumber(limit) /\ limit.num > 0
              THEN ParamsSet(p1, "limit", String(limit)) ELSE p1
        p3 == IF isString(search) /\ search.str # ""
              THEN ParamsSet(p2, "search", search.str) ELSE p2
        p4 == IF isArray(sorts) /\ Len(sorts.xs) > 0
              THEN ParamsSet(p3, "sorts", encodeSorts(sorts)) ELSE p3
    IN  IF isObject(filters) THEN EncodeFilters(p4, filters.xs) ELSE p4

encode(state) == ParamsToString(EncodeParams(state))

ReservedKeys == {"page", "limit", "search", "sorts"}

\* The loop of decode over params.entries() (lines 512-525).
RECURSIVE DecodeFilters(_, _)
DecodeFilters(filters, entries) ==
    IF entries = <<>> THEN filters
    ELSE LET key == entries[1].k
             value == entries[1].v
             filter == trim(decodeValue(key))
         IN  DecodeFilters(
                 IF key \in ReservedKeys \/ filter = "" THEN filters
                 ELSE IF includes(value, ",") /\ ~includes(value, ":")
                      THEN Put(filters, filter, decodeArray(value))
                 ELSE IF includes(value, ":")
                      THEN Put(filters, filter, decodeObject(value))
                 ELSE Put(filters, filter, inferType(value)),
                 Tail(entries))

decode(query) ==
    LET params == ParamsParse(query)
        page == IF ParamsHas(params, "page")
                   /\ positiveSafe(Str(ParamsGet(params, "page")), Num(0)).num > 0
                THEN Number(Str(ParamsGet(params, "page"))) ELSE Num(0)
        limit == IF ParamsHas(params, "limit")
                    /\ positiveSafe(Str(ParamsGet(params, "limit")), Num(0)).num > 0
                 THEN Number(Str(ParamsGet(params, "limit"))) ELSE Num(0)
        search == IF ParamsHas(params, "search")
                  THEN Str(ParamsGet(params, "search")) ELSE Str("")
        sorts == IF ParamsHas(params, "sorts")
                 THEN decodeSorts(trim(ParamsGet(params, "sorts"))) ELSE Arr(<<>>)
    IN  Obj(<<Entry("page", page), Entry("limit", limit), Entry("search", search),
              Entry("sorts", sorts),
              Entry("filters", DecodeFilters(Obj(<<>>), params))>>)

\* decode throws when decodeValue throws: in decodeSorts, on a filter name, or
\* on a piece of a filter value that is decoded.
DecodeThrows(query) ==
    LET params == ParamsParse(query)
    IN  \/ ParamsHas(params, "sorts")
           /\ DecodeSortsThrows(trim(ParamsGet(params, "sorts")))
        \/ \E i \in 1..Len(params) :
               /\ params[i].k \notin ReservedKeys
               /\ \/ DecodeURIThrows(params[i].k)
                  \/ /\ trim(decodeValue(params[i].k)) # ""
                     /\ LET value == params[i].v
                            parts == split(value, ",")
                        IN  IF includes(value, ":")
                            THEN \E j \in 1..Len(parts) :
                                     /\ trim(FirstOf(parts[j])) # ""
                                     /\ SecondOf(parts[j]) # ""
                                     /\ \/ DecodeURIThrows(trim(FirstOf(parts[j])))
                                        \/ DecodeURIThrows(SecondOf(parts[j]))
                            ELSE \E j \in 1..Len(parts) : DecodeURIThrows(parts[j])

\* ------------------------------------------------------------------------
\* useStorage: the items kept under the store's prefix, by key. An item is
\* a string, or null when the key is not set.
\* ------------------------------------------------------------------------

StorageString(items, key) ==
    IF isString(items[key]) /\ trim(items[key].str) # ""
    THEN Str(trim(items[key].str)) ELSE Undefined

StorageNumber(items, key) ==
    LET value == Number(StorageString(items, key))
    IN  IF IsNaN(value) THEN Undefined ELSE value

\* set(key, value): the items afterwards. An empty value is not written, and
\* neither is any value when setItem throws (works = FALSE).
StorageSet(items, key, value, works) ==
    IF trim(value) # "" /\ works THEN [items EXCEPT ![key] = Str(trim(value))]
    ELSE items

\* set without its try block: a throwing setItem throws out of set.
StorageSetThrows_Uncaught(value, works) == trim(value) # "" /\ ~works

\* Whether set(key, value) throws: never, setItem runs inside try (lines
\* 97-102) and nothing before it can throw.
StorageSetThrows(value, works) == FALSE

\* What set(key, value) returns.
StorageSetResult(value, works) == trim(value) # "" /\ works

\* ------------------------------------------------------------------------
\* useResponse
\* ------------------------------------------------------------------------

\* parse that keeps the retained view when r is not an object.
ResponseAssign_KeepsView(retained, r) ==
    IF isObject(r) THEN Spread(retained, r) ELSE retained

\* The retained response after parse(r): Object.assign for an object, every
\* key deleted for anything else.
ResponseAssign(retained, r) == IF isObject(r) THEN Spread(retained, r) ELSE Obj(<<>>)

\* The computed getters over the retained response (lines 240-246).
ResponseGetters(view) ==
    [total |-> positiveSafe(Get(view, "total"), Undefined),
     from |-> positiveSafe(Get(view, "from"), Undefined),
     to |-> positiveSafe(Get(view, "to"), Undefined),
     pages |-> positiveSafe(Get(view, "pages"), Undefined),
     meta |-> objectSafe(Get(view, "meta"), Undefined),
     records |-> arraySafe(Get(view, "data"), Arr(<<>>)),
     isEmpty |-> Len(arraySafe(Get(view, "data"), Arr(<<>>)).xs) <= 0]

\* parse that derives the partial from the new response alone.
ResponseParse_FromNew(retained, r) ==
    IF isObject(r)
    THEN removeZero(Obj(<<
             Entry("page", positiveSafe(Get(r, "page"), Undefined)),
             Entry("limit", positiveSafe(Get(r, "limit"), Undefined)),
             Entry("search", stringSafe(Get(r, "search"), Undefined)),
             Entry("sorts", arraySafe(Get(r, "sorts"), Undefined)),
             Entry("filters", objectSafe(Get(r, "filters"), Undefined))>>))
    ELSE Obj(<<>>)

\* What parse(r) returns, retained being the response after the assignment.
ResponseParse(retained, r) ==
    IF isObject(r)
    THEN removeZero(Obj(<<
             Entry("page", positiveSafe(Get(retained, "page"), Undefined)),
             Entry("limit", positiveSafe(Get(retained, "limit"), Undefined)),
             Entry("search", stringSafe(Get(retained, "search"), Undefined)),
             Entry("sorts", arraySafe(Get(retained, "sorts"), Undefined)),
             Entry("filters", objectSafe(Get(retained, "filters"), Undefined))>>))
    ELSE Obj(<<>>)

\* ------------------------------------------------------------------------
\* useFilter: construction
\* ------------------------------------------------------------------------

HardDefaults ==
    Obj(<<Entry("page", Num(1)), Entry("limit", Num(20)), Entry("search", Str("")),
          Entry("sorts", Arr(<<>>)), Entry("filters", Obj(<<>>))>>)

\* storage.string("sorts") || ""
StoredSortsText(items) ==
    IF StorageString(items, "sorts") = Undefined THEN ""
    ELSE StorageString(items, "sorts").str

\* The options object of lines 55-78, from the options the caller passed
\* and the items in storage.
OptionsWithDefaults(given, items) ==
    LET storables == Prop(given, "storables")
        stored == removeZero(Obj(<<
            Entry("limit", IF isValidOption("limit", storables)
                           THEN StorageNumber(items, "limit") ELSE Undefined),
            Entry("sort", IF isValidOption("sorts", storables)
                          THEN decodeSorts(StoredSortsText(items)) ELSE Undefined)>>))
    IN  Obj(<<
            Entry("storables",
                  Get(Spread(Obj(<<Entry("storables", Str("all"))>>),
                             removeZero(Obj(<<Entry("storables", storables)>>))),
                      "storables")),
            Entry("defaults",
                  Spread(Spread(HardDefaults, removeZero(Prop(given, "defaults"))),
                         stored))>>)

NoCallback == "undefined"

\* The reactive stats of lines 81-102.
InitialStats(opts) ==
    LET defaults == Get(opts, "defaults")
    IN  [sign |-> "",
         locked |-> FALSE,
         callback |-> NoCallback,
         page |-> positiveSafe(Get(defaults, "page"), Num(0)),
         limit |-> positiveSafe(Get(defaults, "limit"), Num(0)),
         search |-> stringSafe(Get(defaults, "search"), Str("")),
         sorts |-> arraySafe(Get(defaults, "sorts"), Arr(<<>>)),
         filters |-> objectSafe(Get(defaults, "filters"), Obj(<<>>))]

\* ------------------------------------------------------------------------
\* useFilter: apply
\* ------------------------------------------------------------------------

\* The page merge with a guard of >= 0 in place of > 0.
MergePage_AcceptsZero(s, f) ==
    IF isNumeric(Prop(f, "page")) /\ Number(Prop(f, "page")).num >= 0
    THEN [s EXCEPT !.page = Number(Prop(f, "page"))] ELSE s

MergePage(s, f) ==
    IF positiveSafe(Prop(f, "page"), Num(0)).num > 0
    THEN [s EXCEPT !.page = Number(Prop(f, "page"))] ELSE s

MergeLimit(s, f) ==
    IF positiveSafe(Prop(f, "limit"), Num(0)).num > 0
    THEN [s EXCEPT !.limit = Number(Prop(f, "limit"))] ELSE s

\* The search merge without the test for the empty string.
MergeSearch_AcceptsEmpty(s, f) ==
    IF isString(Prop(f, "search")) THEN [s EXCEPT !.search = Prop(f, "search")] ELSE s

MergeSearch(s, f) ==
    IF isString(Prop(f, "search")) /\ Prop(f, "search").str # ""
    THEN [s EXCEPT !.search = Prop(f, "search")] ELSE s

\* The sorts merge that keeps the previous sorts on an empty array.
MergeSorts_KeepsOnEmpty(s, f) ==
    IF isArray(Prop(f, "sorts")) /\ Len(Prop(f, "sorts").xs) > 0
    THEN [s EXCEPT !.sorts = Prop(f, "sorts")] ELSE s

MergeSorts(s, f) ==
    IF isArray(Prop(f, "sorts")) THEN [s EXCEPT !.sorts = Prop(f, "sorts")] ELSE s

\* The filters merge that adds the incoming entries to the previous ones.
MergeFilters_KeepsPrevious(s, f) ==
    IF isObject(Prop(f, "filters"))
    THEN [s EXCEPT !.filters = Spread(s.filters, removeZero(Prop(f, "filters")))] ELSE s

MergeFilters(s, f) ==
    IF isObject(Prop(f, "filters"))
    THEN [s EXCEPT !.filters = removeZero(Prop(f, "filters"))] ELSE s

\* Lines 148-166.
Merge(s, f) == MergeFilters(MergeSorts(MergeSearch(MergeLimit(MergePage(s, f), f), f), f), f)

\* The params object of lines 169-175.
Snapshot(s) ==
    Obj(<<Entry("page", s.page), Entry("limit", s.limit), Entry("search", s.search),
          Entry("sorts", s.sorts), Entry("filters", Obj(s.filters.xs))>>)

\* A finally block that leaves the lock set.
Finally_KeepsLock(s) == s

\* The filters computed of line 110.
FiltersView(s) == removeZero(s.filters)

\* The finally block of lines 192-194.
Finally(s) == [s EXCEPT !.locked = FALSE]

\* ------------------------------------------------------------------------
\* useConfig, useCountdown and useTimer: the state after construction
\* ------------------------------------------------------------------------

\* The default configuration of the tests.
DefaultConfig ==
    Obj(<<Entry("a", Num(1)),
          Entry("b", Obj(<<Entry("c", Num(2)),
                           Entry("d", Arr(<<Num(1), Num(2), Num(3)>>)),
                           Entry("e", Obj(<<Entry("f", Num(3))>>))>>)),
          Entry("g", Undefined)>>)

\* useConfig after construction: the clone of the default configuration; no
\* set has been called. before, source and options tell the configuration
\* before the last set and the arguments of that set.
ConfigInit ==
    [value |-> DefaultConfig, before |-> DefaultConfig, source |-> Undefined,
     options |-> Undefined]

\* No interval: the null of the variable interval.
NoInterval == 0

\* useCountdown after construction. ticking is the set of the intervals that
\* setInterval has scheduled and clearInterval has not cleared, made the
\* number of setInterval calls; op, n and ticks tell the last call, the
\* seconds of the last start and the ticks since, was the refs and the
\* intervals before the last call.
CountdownInit ==
    [hours |-> 0, minutes |-> 0, seconds |-> 0, interval |-> NoInterval,
     ticking |-> {}, made |-> 0, op |-> "none", n |-> 0, ticks |-> 0,
     was |-> [hours |-> 0, minutes |-> 0, seconds |-> 0, interval |-> NoInterval,
              ticking |-> {}]]

\* No end time: the null of the variable endTime.
NoEndTime == 0

\* useTimer after construction. The clock and the end time count tenths of
\* a second, the clock standing at 10 when the timer is constructed;
\* scheduled tells whether an interval is scheduled, op and n the last call
\* and the duration of the last start that was accepted.
TimerInit ==
    [hours |-> 0, minutes |-> 0, seconds |-> 0, scheduled |-> FALSE,
     endTime |-> NoEndTime, now |-> 10, op |-> "none", n |-> 0]

\* ------------------------------------------------------------------------
\* The store as a state machine
\* ------------------------------------------------------------------------

VARIABLES
    config,     \* the reactive config of useConfig
    countdown,  \* the refs and the intervals of useCountdown
    timer,      \* the refs, the interval, the end time and the clock of useTimer
    calc,       \* the last call of the codec or of the signer on its own
    given,      \* the options the caller passed to useFilter
    options,    \* the options object after line 78
    stats,      \* the reactive stats: sign, locked, callback and the five fields
    storage,    \* the items of localStorage under the store's prefix
    response,   \* the retained response of useResponse
    pc,         \* where the apply in flight waits: "idle", "validate" or "sign"
    params,     \* the params object of the apply in flight, or of the last one
    log,        \* what the last apply that was not dropped has done so far
    hist,       \* how that apply started and ended, and how the one before it ended
    committed,  \* the snapshot whose signature was stored last
    observed,   \* the snapshot handed to the callback last
    ncalls      \* the number of apply calls made, dropped ones included

vars ==
    <<config, countdown, timer, calc, given, options, stats, storage, response, pc, params, log, hist, committed, observed,
      ncalls>>

\* The number of apply calls in a run.
MaxCalls == 3

\* No snapshot yet.
NoSnapshot == Undefined

\* One thing an apply has done: a digest computed, the signature stored, the
\* callback invoked with (snap, text), or storage.set(key, text) returning ok.
Event(e, key, text, snap, ok) == [e |-> e, key |-> key, text |-> text, snap |-> snap, ok |-> ok]

EventsOf(events, e) == SelectSeq(events, LAMBDA x : x.e = e)

\* Equality of two values whatever the insertion order of object keys.
RECURSIVE SameValue(_, _)
SameValue(a, b) ==
    IF a.t # b.t THEN FALSE
    ELSE IF a.t = "object"
    THEN /\ Len(a.xs) = Len(b.xs)
         /\ \A i \in 1..Len(a.xs) :
                HasKey(b, a.xs[i].k) /\ SameValue(a.xs[i].v, Get(b, a.xs[i].k))
    ELSE IF a.t = "array"
    THEN /\ Len(a.xs) = Len(b.xs)
         /\ \A i \in 1..Len(a.xs) : SameValue(a.xs[i], b.xs[i])
    ELSE a = b

\* A call of encode, decode, decodeSorts or sign: its arguments and results.
Calc(op, arg, arg2, res, res2) ==
    [op |-> op, arg |-> arg, arg2 |-> arg2, res |-> res, res2 |-> res2]

NoCalc == Calc("none", Undefined, Undefined, Undefined, Undefined)

\* The result of a call that threw.
Thrown == [t |-> "thrown", num |-> 0, str |-> "URIError", xs |-> <<>>]

NoHistory ==
    [outcome |-> "none", same |-> FALSE, differs |-> FALSE, sign0 |-> "",
     reg |-> FALSE, dropped |-> FALSE,
     prev |-> [outcome |-> "none", cbs |-> 0, reg |-> FALSE]]

\* ---- inputs --------------------------------------------------------------

SortA == SortOf("a", "asc")
SortB == SortOf("b", "desc")

FiltersZero ==
    Obj(<<Entry("a", Arr(<<>>)), Entry("b", Obj(<<>>)), Entry("c", Str("x"))>>)

\* The partials apply is called with.
Partials ==
    { Obj(<<>>),
      Obj(<<Entry("page", Num(2))>>),
      Obj(<<Entry("page", Str("2"))>>),
      Obj(<<Entry("sorts", Arr(<<SortA, SortB>>))>>),
      Obj(<<Entry("sorts", Arr(<<SortB, SortA>>))>>) }

\* The query strings parseURL is called with.
Queries == {"page=2", "c=%"}

\* The responses parseResponse is called with.
Responses ==
    { Str("error"),
      Obj(<<Entry("page", Str("2")), Entry("total", Num(40))>>) }

NoItems == [limit |-> JSNull, sorts |-> JSNull]

\* How a store is constructed: the options passed and the items in storage.
Constructions == {[given |-> Undefined, items |-> NoItems]}

\* The callbacks onApply is called with.
Callbacks == {"callback"}

\* decode of each query string.
Decoded == [q \in {x \in Queries : ~DecodeThrows(x)} |-> decode(q)]

\* ---- construction --------------------------------------------------------

Constructed(k) ==
    /\ DecodeSortsThrows(StoredSortsText(k.items)) = FALSE
    /\ config = ConfigInit
    /\ countdown = CountdownInit
    /\ timer = TimerInit
    /\ calc = NoCalc
    /\ given = k.given
    /\ options = OptionsWithDefaults(k.given, k.items)
    /\ stats = InitialStats(OptionsWithDefaults(k.given, k.items))
    /\ storage = k.items
    /\ response = Obj(<<>>)
    /\ pc = "idle"
    /\ params = NoSnapshot
    /\ log = <<>>
    /\ hist = NoHistory
    /\ committed = NoSnapshot
    /\ observed = NoSnapshot
    /\ ncalls = 0

Init == \E k \in Constructions : Constructed(k)

\* ---- onApply -------------------------------------------------------------

OnApply(callback) ==
    /\ stats.callback # callback
    /\ stats' = [stats EXCEPT !.callback = callback]
    /\ UNCHANGED <<config, countdown, timer, calc, given, options, storage, response, pc, params, log, hist, committed,
                   observed, ncalls>>

\* ---- apply: lines 145-177, up to the first await -------------------------

\* A call that finds the store locked returns at line 145.
ApplyDropped ==
    /\ hist' = [hist EXCEPT !.dropped = TRUE]
    /\ UNCHANGED <<config, countdown, timer, calc, given, options, stats, storage, pc, params, log, committed, observed>>

\* A call that takes the lock merges the partial, builds params and awaits
\* the digest of validate.
ApplyStarted(f) ==
    LET merged == Merge([stats EXCEPT !.locked = TRUE], f)
    IN  /\ stats' = merged
        /\ params' = Snapshot(merged)
        /\ pc' = "validate"
        /\ log' = <<>>
        /\ hist' = [outcome |-> "pending",
                    same |-> params # NoSnapshot /\ SameValue(Snapshot(merged), params),
                    differs |-> committed = NoSnapshot
                                \/ ~SameValue(Snapshot(merged), committed),
                    sign0 |-> stats.sign,
                    reg |-> stats.callback # NoCallback,
                    dropped |-> FALSE,
                    prev |-> [outcome |-> hist.outcome,
                              cbs |-> Len(EventsOf(log, "callback")),
                              reg |-> hist.reg]]
        /\ UNCHANGED <<config, countdown, timer, calc, given, options, storage, committed, observed>>

\* apply without the lock check of line 145.
ApplyCall_NoLockCheck(f) ==
    /\ ncalls < MaxCalls
    /\ ncalls' = ncalls + 1
    /\ ApplyStarted(f)

ApplyCall(f) ==
    /\ ncalls < MaxCalls
    /\ ncalls' = ncalls + 1
    /\ IF stats.locked THEN ApplyDropped ELSE ApplyStarted(f)

Apply(f) == ApplyCall(f) /\ UNCHANGED response

\* ---- parseURL and parseResponse ------------------------------------------

ParseURL(encoded) ==
    /\ DecodeThrows(encoded) = FALSE
    /\ ApplyCall(Decoded[encoded])
    /\ UNCHANGED response

\* decode throws, parseURL throws with it and apply is not called.
ParseURLThrows(encoded) ==
    /\ DecodeThrows(encoded) = TRUE
    /\ ncalls < MaxCalls
    /\ ncalls' = ncalls + 1
    /\ UNCHANGED <<config, countdown, timer, calc, given, options, stats, storage, response, pc, params, log, hist,
                   committed, observed>>

ParseResponse(r) ==
    /\ response' = ResponseAssign(response, r)
    /\ ApplyCall(ResponseParse(ResponseAssign(response, r), r))

\* ---- apply: the awaits and the commit ------------------------------------

Settled(outcome) ==
    /\ pc' = "idle"
    /\ hist' = [hist EXCEPT !.outcome = outcome]

DigestEvent == Event("digest", "", "", Undefined, TRUE)

\* The digest of validate resolves (line 177). With the same signature the
\* call is over; with another it awaits the digest of sign.
ValidateResolved ==
    /\ pc = "validate"
    /\ log' = Append(log, DigestEvent)
    /\ IF validate(params, stats.sign)
       THEN /\ stats' = Finally(stats)
            /\ Settled("resolved")
       ELSE /\ pc' = "sign"
            /\ UNCHANGED <<stats, hist>>
    /\ UNCHANGED <<config, countdown, timer, calc, given, options, storage, response, params, committed, observed, ncalls>>

\* The digest of validate rejects: apply rejects.
ValidateRejected ==
    /\ pc = "validate"
    /\ stats' = Finally(stats)
    /\ Settled("digestFailed")
    /\ UNCHANGED <<config, countdown, timer, calc, given, options, storage, response, params, log, committed, observed, ncalls>>

\* A rejected digest of sign answered by storing the flattened snapshot
\* itself as the signature.
SignRejected_FallsBack ==
    /\ pc = "sign"
    /\ stats' = Finally([stats EXCEPT !.sign = join(flatten(params, ""), "|")])
    /\ Settled("digestFailed")
    /\ UNCHANGED <<config, countdown, timer, calc, given, options, storage, response, params, log, committed, observed,
                   ncalls>>

\* The digest of sign rejects: apply rejects.
SignRejected ==
    /\ pc = "sign"
    /\ stats' = Finally(stats)
    /\ Settled("digestFailed")
    /\ UNCHANGED <<config, countdown, timer, calc, given, options, storage, response, params, log, committed, observed, ncalls>>

\* Line 179 without the assignment to stats.sign.
StoreSign_Forgets(s, p) == s

\* Line 179.
StoreSign(s, p) == [s EXCEPT !.sign = sign(p)]

\* Line 180: the callback, when one is registered.
CallbackEvents(s, p, throws) ==
    IF s.callback # NoCallback
    THEN <<Event("callback", "", encode(p), p, ~throws)>>
    ELSE <<>>

\* Lines 183-190: the storage.set calls, in order, as [key, text] pairs.
PersistCalls(s, opts) ==
    LET limit == positiveSafe(s.limit, Num(0))
        sorts == arraySafe(s.sorts, Arr(<<>>))
    IN  (IF isValidOption("limit", Get(opts, "storables")) /\ limit.num > 0
         THEN <<Entry("limit", String(limit))>> ELSE <<>>)
        \o
        (IF isValidOption("sorts", Get(opts, "storables")) /\ Len(sorts.xs) > 0
         THEN <<Entry("sorts", encodeSorts(sorts))>> ELSE <<>>)

RECURSIVE StorageAfter(_, _, _)
StorageAfter(items, calls, works) ==
    IF calls = <<>> THEN items
    ELSE StorageAfter(StorageSet(items, calls[1].k, calls[1].v, works),
                      Tail(calls), works)

PersistEvents(calls, works) ==
    [i \in 1..Len(calls) |->
        Event("set", calls[i].k, calls[i].v, Undefined,
              StorageSetResult(calls[i].v, works))]

\* Line 179 storing the digest validate has computed, with no second digest.
StoreSignEvents_ReusesDigest(signature) ==
    <<Event("sign", "", signature, Undefined, TRUE)>>

\* Line 179: sign computes the digest again and the signature is stored.
StoreSignEvents(signature) ==
    <<DigestEvent, Event("sign", "", signature, Undefined, TRUE)>>

\* Lines 179-190 with the callback invoked before the signature is stored.
CommitEvents_CallbackFirst(signed, called, persisted) == called \o signed \o persisted

\* What lines 179-190 do, in order.
CommitEvents(signed, called, persisted) == signed \o called \o persisted

\* The digest of sign resolves (line 179): the signature is stored, the
\* callback invoked and the storables persisted, in one run of lines
\* 179-193. The callback may throw, and setItem may throw inside set.
SignResolved(throws, works) ==
    /\ pc = "sign"
    /\ LET signed == StoreSign(stats, params)
           called == CallbackEvents(stats, params, throws)
           thrown == called # <<>> /\ throws
           calls == IF thrown THEN <<>> ELSE PersistCalls(signed, options)
       IN  /\ stats' = Finally(signed)
           /\ log' = log \o CommitEvents(StoreSignEvents(signed.sign), called,
                                          PersistEvents(calls, works))
           /\ storage' = StorageAfter(storage, calls, works)
           /\ committed' = params
           /\ observed' = IF called # <<>> THEN params ELSE observed
           /\ Settled(IF thrown THEN "callbackThrew"
                      ELSE IF \E i \in 1..Len(calls) : StorageSetThrows(calls[i].v, works)
                      THEN "storageThrew"
                      ELSE "resolved")
    /\ UNCHANGED <<config, countdown, timer, calc, given, options, response, params, ncalls>>

Next ==
    \/ \E c \in Callbacks : OnApply(c)
    \/ \E f \in Partials : Apply(f)
    \/ \E q \in Queries : ParseURL(q)
    \/ \E q \in Queries : ParseURLThrows(q)
    \/ \E r \in Responses : ParseResponse(r)
    \/ ValidateResolved
    \/ ValidateRejected
    \/ SignResolved(FALSE, TRUE)
    \/ SignResolved(FALSE, FALSE)
    \/ SignResolved(TRUE, TRUE)
    \/ SignRejected

Spec == Init /\ [][Next]_vars

\* ------------------------------------------------------------------------
\* The store under many page and limit inputs
\* ------------------------------------------------------------------------

\* What a caller may pass as page or as limit.
FieldValues ==
    {Undefined, Num(0), Tenths(-10), Num(2), Str("3"), Str("abc"), Tenths(15)}

PartialOf(page, limit, rest) ==
    Obj(SelectSeq(<<Entry("page", page), Entry("limit", limit)>>,
                  LAMBDA x : x.v # Undefined) \o rest)

\* What a caller may pass beside page and limit.
FieldRest == <<Entry("search", Str("foo")), Entry("filters", FiltersZero)>>

FieldPartials ==
    {PartialOf(p, Undefined, <<>>) : p \in FieldValues}
    \cup {PartialOf(Undefined, l, <<>>) : l \in FieldValues}
    \cup {PartialOf(p, l, FieldRest) : p \in {Num(0), Num(2), Str("abc")},
                                       l \in {Tenths(-10), Str("3"), Tenths(15)}}

\* The number of apply calls in a run of the store under these inputs.
MaxFieldCalls == 2

FieldQueries == {"page=0&limit=5", "limit=abc&c=x"}

FieldResponses == {Obj(<<Entry("page", Num(0)), Entry("limit", Str("7"))>>)}

FieldDecoded == [q \in FieldQueries |-> decode(q)]

FieldConstructions ==
    { [given |-> Undefined, items |-> NoItems],
      [given |-> Obj(<<Entry("defaults", Obj(<<Entry("page", Num(0))>>))>>),
       items |-> NoItems],
      [given |-> Obj(<<Entry("storables", Arr(<<Str("limit")>>)),
                       Entry("defaults", Obj(<<Entry("limit", Num(10))>>))>>),
       items |-> [limit |-> Str("5"), sorts |-> Str("a:asc")]] }

InitFields == \E k \in FieldConstructions : Constructed(k)

FieldApply(f) == ncalls < MaxFieldCalls /\ Apply(f)

FieldParseURL(encoded) ==
    /\ ncalls < MaxFieldCalls
    /\ ApplyCall(FieldDecoded[encoded])
    /\ UNCHANGED response

FieldParseResponse(r) == ncalls < MaxFieldCalls /\ ParseResponse(r)

NextFields ==
    \/ \E f \in FieldPartials : FieldApply(f)
    \/ \E q \in FieldQueries : FieldParseURL(q)
    \/ \E r \in FieldResponses : FieldParseResponse(r)
    \/ ValidateResolved
    \/ SignResolved(FALSE, TRUE)

SpecFields == InitFields /\ [][NextFields]_vars

\* ------------------------------------------------------------------------
\* The store under many search, sorts and filters inputs
\* ------------------------------------------------------------------------

\* A sort entry with an empty field and an order that is no order.
BadSort == SortOf("", "up")

\* What a caller may pass as search, as sorts and as filters.
SearchValues == {Undefined, Str(""), Num(5), Str("foo"), Str("bar")}

SortsValues ==
    {Undefined, Arr(<<>>), Arr(<<SortA>>), Arr(<<SortB, SortA>>), Arr(<<SortA, SortA>>),
     Arr(<<BadSort, SortB>>), Str("a:asc")}

FiltersValues ==
    {Undefined, Obj(<<>>), FiltersZero, Obj(<<Entry("d", Bool(TRUE))>>), Str("x"),
     Obj(<<Entry("u", Undefined), Entry("n", JSNull)>>)}

MergePartialOf(search, sorts, filters) ==
    Obj(SelectSeq(<<Entry("search", search), Entry("sorts", sorts),
                    Entry("filters", filters)>>,
                  LAMBDA x : x.v # Undefined))

MergePartials ==
    {MergePartialOf(v, Undefined, Undefined) : v \in SearchValues}
    \cup {MergePartialOf(Undefined, v, Undefined) : v \in SortsValues}
    \cup {MergePartialOf(Undefined, Undefined, v) : v \in FiltersValues}
    \cup {MergePartialOf(Str(""), Arr(<<SortB>>), Str("x")),
          MergePartialOf(Str("foo"), Str("a:asc"), FiltersZero)}

\* The number of apply calls in a run of the store under these inputs.
MaxMergeCalls == 2

MergeQueries == {"sorts=a:asc,:desc,b:up&search=&d=true"}

MergeResponses ==
    {Obj(<<Entry("sorts", Arr(<<BadSort>>)),
           Entry("filters", Obj(<<Entry("a", Arr(<<>>)), Entry("c", Str("x"))>>))>>)}

MergeDecoded == [q \in MergeQueries |-> decode(q)]

MergeConstructions ==
    { [given |-> Undefined, items |-> NoItems],
      [given |-> Obj(<<Entry("defaults",
                             Obj(<<Entry("search", Str("init")),
                                   Entry("filters", Obj(<<Entry("a", Arr(<<>>))>>))>>))>>),
       items |-> NoItems] }

InitMerge == \E k \in MergeConstructions : Constructed(k)

\* The callback is registered before the first apply.
MergeOnApply(callback) == ncalls = 0 /\ OnApply(callback)

MergeApply(f) == ncalls < MaxMergeCalls /\ Apply(f)

MergeParseURL(encoded) ==
    /\ ncalls < MaxMergeCalls
    /\ ApplyCall(MergeDecoded[encoded])
    /\ UNCHANGED response

MergeParseResponse(r) == ncalls < MaxMergeCalls /\ ParseResponse(r)

NextMerge ==
    \/ \E c \in Callbacks : MergeOnApply(c)
    \/ \E f \in MergePartials : MergeApply(f)
    \/ \E q \in MergeQueries : MergeParseURL(q)
    \/ \E r \in MergeResponses : MergeParseResponse(r)
    \/ ValidateResolved
    \/ SignResolved(FALSE, TRUE)

SpecMerge == InitMerge /\ [][NextMerge]_vars

\* ------------------------------------------------------------------------
\* The store under many storables options and stored items
\* ------------------------------------------------------------------------

StoredLimit == [limit |-> Str("5"), sorts |-> JSNull]

StoredLimitAndSorts == [limit |-> Str("5"), sorts |-> Str("a:asc")]

\* The options {storables, defaults: {limit: 10}}.
StorablesAndLimit(storables) ==
    Obj(<<Entry("storables", storables),
          Entry("defaults", Obj(<<Entry("limit", Num(10))>>))>>)

StoreConstructions ==
    { [given |-> Undefined, items |-> StoredLimit],
      [given |-> Obj(<<Entry("storables", Arr(<<>>))>>), items |-> NoItems],
      [given |-> StorablesAndLimit(Arr(<<Str("limit")>>)), items |-> StoredLimitAndSorts],
      [given |-> StorablesAndLimit(Str("all")), items |-> StoredLimit],
      [given |-> StorablesAndLimit(Arr(<<Str("sorts")>>)), items |-> StoredLimit],
      [given |-> StorablesAndLimit(Arr(<<Str("limit"), Str("sorts")>>)), items |-> NoItems] }

StorePartials ==
    { Obj(<<Entry("limit", Num(7))>>),
      Obj(<<Entry("sorts", Arr(<<SortB>>))>>),
      Obj(<<Entry("sorts", Arr(<<>>))>>),
      Obj(<<Entry("page", Num(2))>>) }

\* The number of apply calls in a run of the store under these options.
MaxStoreCalls == 3

InitStore == \E k \in StoreConstructions : Constructed(k)

StoreApply(f) == ncalls < MaxStoreCalls /\ Apply(f)

NextStore ==
    \/ \E f \in StorePartials : StoreApply(f)
    \/ ValidateResolved
    \/ SignResolved(FALSE, TRUE)
    \/ SignResolved(FALSE, FALSE)

SpecStore == InitStore /\ [][NextStore]_vars

\* ------------------------------------------------------------------------
\* Responses
\* ------------------------------------------------------------------------

\* What a server may answer: values that are not objects, a page of records
\* with its metadata, and objects with some of the fields.
ResponseValues ==
    { Str("error"), JSNull,
      Obj(<<Entry("page", Num(7)), Entry("limit", Str("5")), Entry("total", Num(40)),
            Entry("from", Num(31)), Entry("to", Num(35)), Entry("pages", Num(8)),
            Entry("meta", Obj(<<Entry("k", Str("v"))>>)),
            Entry("data", Arr(<<Str("r1"), Str("r2")>>))>>),
      Obj(<<Entry("total", Str("12")), Entry("search", Str("foo")),
            Entry("sorts", Arr(<<SortA>>)),
            Entry("filters", Obj(<<Entry("c", Str("x"))>>))>>),
      Obj(<<Entry("total", Num(0)), Entry("data", Str("none"))>>) }

MaxResponseCalls == 3

InitResponse == Constructed([given |-> Undefined, items |-> NoItems])

ResponseCall(r) == ncalls < MaxResponseCalls /\ ParseResponse(r)

NextResponse ==
    \/ \E r \in ResponseValues : ResponseCall(r)
    \/ ValidateResolved
    \/ SignResolved(FALSE, TRUE)

SpecResponse == InitResponse /\ [][NextResponse]_vars

\* ------------------------------------------------------------------------
\* The codec on its own
\* ------------------------------------------------------------------------

\* Lists of well-formed sorts, with duplicates and with fields that hold the
\* separators.
CodecSortLists ==
    { Arr(<<>>), Arr(<<SortA>>), Arr(<<SortB, SortA>>), Arr(<<SortA, SortA>>),
      Arr(<<SortOf("a:b", "asc"), SortOf("x,y", "desc"), SortOf(" p", "asc")>>) }

\* Lists of sorts with malformed entries among them.
CodecBadSortLists ==
    { Arr(<<BadSort>>), Arr(<<BadSort, SortB>>),
      Arr(<<SortB, SortOf("", "asc"), SortA, SortOf("c", "up"), SortB>>),
      Arr(<<SortOf("c", ""), SortA, SortOf("d", "ASC")>>) }

\* Filters maps whose values are primitives, flat arrays and flat maps.
CodecFilterMaps ==
    { Obj(<<>>),
      Obj(<<Entry("c", Str("x"))>>),
      Obj(<<Entry("n", Num(5))>>),
      Obj(<<Entry("r", Tenths(122))>>),
      Obj(<<Entry("b", Bool(TRUE))>>),
      Obj(<<Entry("z", JSNull)>>),
      Obj(<<Entry("s", Str("a,b"))>>),
      Obj(<<Entry("s", Str("a:b"))>>),
      Obj(<<Entry("s", Str("50% off"))>>),
      Obj(<<Entry("arr", Arr(<<Str("x"), Str("y")>>))>>),
      Obj(<<Entry("arr", Arr(<<Num(1), Bool(FALSE), Str("x")>>))>>),
      Obj(<<Entry("one", Arr(<<Str("x")>>))>>),
      Obj(<<Entry("m", Obj(<<Entry("k", Str("v"))>>))>>),
      Obj(<<Entry("m", Obj(<<Entry("k", Str("v")), Entry("j", Num(5))>>))>>),
      Obj(<<Entry("c", Str("x")), Entry("n", Num(5)),
            Entry("arr", Arr(<<Str("x"), Str("y")>>))>>) }

StateOf(page, limit, search, sorts, filters) ==
    Obj(<<Entry("page", page), Entry("limit", limit), Entry("search", search),
          Entry("sorts", sorts), Entry("filters", filters)>>)

\* The states encode is called with.
CodecStates ==
    {StateOf(p, Num(20), Str("foo"), srt, flt) :
        p \in {Num(1), Num(3)}, srt \in CodecSortLists, flt \in CodecFilterMaps}

\* States whose filters hold an entry under the name of a parameter of the
\* store.
CodecReservedStates ==
    {StateOf(Num(1), Num(20), Str("foo"), Arr(<<SortA>>), flt) :
        flt \in { Obj(<<Entry("page", Num(5))>>),
                  Obj(<<Entry("limit", Str("x"))>>),
                  Obj(<<Entry("search", Str("bar"))>>),
                  Obj(<<Entry("sorts", Arr(<<Str("z"), Str("y")>>))>>),
                  Obj(<<Entry("c", Str("x")), Entry("page", JSNull)>>) }}

\* The query of the example.
ExampleQuery ==
    "page=3&limit=5&search=foo&sorts=price:desc,id:asc&category=books,ebooks&available=true"

\* One parameter k with each kind of value.
CodecValueQueries ==
    { "k=true", "k=false", "k=%5Bnull%5D", "k=12", "k=-1.5", "k=abc", "k=True",
      "k=a,b", "k=1,true,%5Bnull%5D,x", "k=a:1", "k=a:1,b:x,c:true", "k=a,b:c",
      "k=a%252Cb", "k=a%253Ab" }

\* Reserved names, names that decode or trim to a reserved name, repeated
\* and blank names.
CodecKeyQueries ==
    { "page=2&x=1&sorts=a:asc&search=s&limit=3", "+page=5", "%2570age=5", "limit+=7",
      "a=1&a=2", "a=1&+a=2", "=5", "+=5", "a=1&b=2&c=3" }

\* Every kind of page and limit.
CodecNumberQueries ==
    { "x=1", "page=0", "page=-1", "page=1.5", "page=abc", "page=", "limit=2.5",
      "limit=0&page=4", "page=3&limit=5" }

\* Malformed fragments.
CodecMalformedQueries ==
    { "sorts=a:asc,:desc,b:up,c:desc", "sorts=a", "c=%", "%25zz=1", "sorts=%25:asc",
      "k=a:%25", "page=2&k=%25&x=1" }

CodecQueries ==
    {ExampleQuery} \cup CodecValueQueries \cup CodecKeyQueries
    \cup CodecNumberQueries \cup CodecMalformedQueries

\* The store, which the functions of the encoder and the signer leave alone.
storeVars ==
    <<given, options, stats, storage, response, pc, params, log, hist,
      committed, observed, ncalls>>

\* The other composables, which share nothing with the store.
otherVars == <<config, countdown, timer>>

\* encoder.encode(state)
CodecEncode(state) ==
    /\ calc' = Calc("encode", state, Undefined, Str(encode(state)), Undefined)
    /\ UNCHANGED <<storeVars, otherVars>>

\* encoder.decode of the query that encode returned.
CodecRoundTrip ==
    /\ calc.op = "encode"
    /\ calc' = Calc("roundTrip", calc.arg, calc.res,
                    IF DecodeThrows(calc.res.str) THEN Thrown ELSE decode(calc.res.str),
                    Undefined)
    /\ UNCHANGED <<storeVars, otherVars>>

\* encoder.decode(query)
CodecDecode(query) ==
    /\ calc' = Calc("decode", Str(query), Undefined,
                    IF DecodeThrows(query) THEN Thrown ELSE decode(query), Undefined)
    /\ UNCHANGED <<storeVars, otherVars>>

\* decodeSorts(encodeSorts(sorts)), as encode writes and decode reads the
\* sorts parameter.
CodecSorts(sorts) ==
    /\ calc' = Calc("sorts", sorts, Str(encodeSorts(sorts)),
                    decodeSorts(encodeSorts(sorts)), Undefined)
    /\ UNCHANGED <<storeVars, otherVars>>

InitCodec == Constructed([given |-> Undefined, items |-> NoItems])

NextCodec ==
    \/ \E state \in CodecStates \cup CodecReservedStates : CodecEncode(state)
    \/ CodecRoundTrip
    \/ \E query \in CodecQueries : CodecDecode(query)
    \/ \E sorts \in CodecSortLists \cup CodecBadSortLists : CodecSorts(sorts)

SpecCodec == InitCodec /\ [][NextCodec]_vars

\* ------------------------------------------------------------------------
\* The signer on its own
\* ------------------------------------------------------------------------

NumArr(a, b) == Arr(<<Num(a), Num(b)>>)

\* A snapshot as apply signs it.
SignedState(sorts, category) ==
    Obj(<<Entry("page", Num(1)), Entry("sorts", sorts),
          Entry("filters", Obj(<<Entry("category", category)>>))>>)

\* Values in pairs that differ in the insertion order of keys at depth one
\* and three and inside an array, in the order of the elements of an
\* array that is the value or sits under a key, and in a value.
SignerValues ==
    { Obj(<<Entry("a", Num(1)), Entry("b", Num(2))>>),
      Obj(<<Entry("b", Num(2)), Entry("a", Num(1))>>),
      Obj(<<Entry("a", Num(1)), Entry("b", Num(3))>>),
      Obj(<<Entry("o", Obj(<<Entry("p", Obj(<<Entry("q", Num(1)), Entry("r", JSNull)>>))>>))>>),
      Obj(<<Entry("o", Obj(<<Entry("p", Obj(<<Entry("r", JSNull), Entry("q", Num(1))>>))>>))>>),
      Arr(<<Obj(<<Entry("a", Num(1)), Entry("b", Num(2))>>)>>),
      Arr(<<Obj(<<Entry("b", Num(2)), Entry("a", Num(1))>>)>>),
      NumArr(1, 2), NumArr(2, 1),
      Obj(<<Entry("f", NumArr(1, 2))>>),
      Obj(<<Entry("f", NumArr(2, 1))>>),
      SignedState(Arr(<<SortA, SortB>>), Arr(<<Str("books"), Str("ebooks")>>)),
      SignedState(Arr(<<SortB, SortA>>), Arr(<<Str("books"), Str("ebooks")>>)),
      SignedState(Arr(<<SortA, SortB>>), Arr(<<Str("ebooks"), Str("books")>>)) }

\* signer.sign(a) and signer.sign(b), both resolved.
SignerSign(a, b) ==
    /\ calc' = Calc("sign", a, b, Str(sign(a)), Str(sign(b)))
    /\ UNCHANGED <<storeVars, otherVars>>

\* signer.validate(a, signature of b), resolved.
SignerValidate ==
    /\ calc.op = "sign"
    /\ calc' = Calc("validate", calc.arg, calc.arg2,
                    Bool(validate(calc.arg, calc.res2.str)), calc.res2)
    /\ UNCHANGED <<storeVars, otherVars>>

InitSigner == Constructed([given |-> Undefined, items |-> NoItems])

NextSigner ==
    \/ \E a, b \in SignerValues : SignerSign(a, b)
    \/ SignerValidate

SpecSigner == InitSigner /\ [][NextSigner]_vars

\* ------------------------------------------------------------------------
\* useConfig
\* ------------------------------------------------------------------------

\* typeof v === "object"
TypeofObject(v) == v.t \in {"object", "array", "null"}

\* strategies[currentPath]
StrategyOf(strategies, path) == IF isObject(strategies) THEN Get(strategies, path) ELSE Undefined

RECURSIVE ConfigMerge(_, _, _, _)
RECURSIVE ConfigMergeKeys(_, _, _, _)

\* merge that assigns an undefined source value like any other.
ConfigMergeKeys_AssignsUndefined(target, entries, path, strategies) ==
    IF entries = <<>> THEN target
    ELSE LET key == entries[1].k
             currentPath == IF path # "" THEN path \o "." \o key ELSE key
             strategy == StrategyOf(strategies, currentPath)
             sourceValue == entries[1].v
             targetValue == Get(target, key)
             next ==
                 IF strategy = Str("safe") /\ sourceValue = Undefined THEN target
                 ELSE IF strategy = Str("replace") \/ isArray(sourceValue)
                 THEN Put(target, key, sourceValue)
                 ELSE IF /\ TypeofObject(sourceValue) /\ sourceValue # JSNull
                         /\ TypeofObject(targetValue) /\ targetValue # JSNull
                 THEN Put(target, key,
                          ConfigMerge(targetValue, sourceValue, currentPath, strategies))
                 ELSE Put(target, key, sourceValue)
         IN  ConfigMergeKeys(next, Tail(entries), path, strategies)

\* The loop of merge over Object.keys(source) (lines 58-97).
ConfigMergeKeys(target, entries, path, strategies) ==
    IF entries = <<>> THEN target
    ELSE LET key == entries[1].k
             currentPath == IF path # "" THEN path \o "." \o key ELSE key
             strategy == StrategyOf(strategies, currentPath)
             sourceValue == entries[1].v
             targetValue == Get(target, key)
             next ==
                 IF strategy = Str("safe") /\ sourceValue = Undefined THEN target
                 ELSE IF /\ strategy = Undefined
                         /\ ~TypeofObject(sourceValue)
                         /\ sourceValue = Undefined
                 THEN target
                 ELSE IF strategy = Str("replace") \/ isArray(sourceValue)
                 THEN Put(target, key, sourceValue)
                 ELSE IF /\ TypeofObject(sourceValue) /\ sourceValue # JSNull
                         /\ TypeofObject(targetValue) /\ targetValue # JSNull
                 THEN Put(target, key,
                          ConfigMerge(targetValue, sourceValue, currentPath, strategies))
                 ELSE Put(target, key, sourceValue)
         IN  ConfigMergeKeys(next, Tail(entries), path, strategies)

\* merge(target, source, path): the target after the call.
ConfigMerge(target, source, path, strategies) ==
    IF ~TypeofObject(source) \/ source = JSNull \/ isArray(source) THEN target
    ELSE ConfigMergeKeys(target, source.xs, path, strategies)

\* The partial configurations set is called with.
ConfigPartials ==
    { Obj(<<>>),
      Obj(<<Entry("a", Num(99))>>),
      Obj(<<Entry("a", Undefined)>>),
      Obj(<<Entry("a", JSNull)>>),
      Obj(<<Entry("a", Obj(<<Entry("z", Num(1))>>))>>),
      Obj(<<Entry("h", Undefined)>>),
      Obj(<<Entry("g", Str("s")), Entry("a", Undefined)>>),
      Obj(<<Entry("b", Num(5))>>),
      Obj(<<Entry("b", Obj(<<Entry("c", Num(5))>>))>>),
      Obj(<<Entry("b", Obj(<<Entry("c", Undefined)>>))>>),
      Obj(<<Entry("b", Obj(<<Entry("d", Arr(<<Num(9), Num(8)>>))>>))>>),
      Obj(<<Entry("b", Obj(<<Entry("e", Obj(<<Entry("f", Num(10)), Entry("x", Num(20))>>))>>))>>),
      Obj(<<Entry("b", Obj(<<Entry("e", Obj(<<Entry("f", Undefined)>>)),
                             Entry("c", Num(7))>>))>>) }

\* The strategies set is called with: none, and one for a path.
ConfigOptions ==
    { Undefined,
      Obj(<<Entry("b.e", Str("merge"))>>),
      Obj(<<Entry("a", Str("replace"))>>),
      Obj(<<Entry("b.c", Str("safe"))>>) }

\* set(newConfig, options)
ConfigSet(newConfig, strategies) ==
    /\ config' = [value |-> ConfigMerge(config.value, newConfig, "",
                                        IF strategies = Undefined THEN Obj(<<>>)
                                        ELSE strategies),
                  before |-> config.value, source |-> newConfig,
                  options |-> strategies]
    /\ UNCHANGED <<calc, storeVars, countdown, timer>>

InitConfig == Constructed([given |-> Undefined, items |-> NoItems])

NextConfig == \E newConfig \in ConfigPartials, strategies \in ConfigOptions :
                  ConfigSet(newConfig, strategies)

SpecConfig == InitConfig /\ [][NextConfig]_vars

\* ------------------------------------------------------------------------
\* useCountdown
\* ------------------------------------------------------------------------

\* toHMS(duration, "seconds") of @v-termeh/utils, for whole seconds.
toHMS(duration) ==
    [hours |-> duration \div 3600,
     minutes |-> (duration % 3600) \div 60,
     seconds |-> duration % 60]

\* The refs and the intervals, as a call finds them.
CountdownNow(c) ==
    [hours |-> c.hours, minutes |-> c.minutes, seconds |-> c.seconds,
     interval |-> c.interval, ticking |-> c.ticking]

\* pauseTimer (lines 71-76): clearInterval of the interval the variable holds.
pauseTimer(c) ==
    IF c.interval # NoInterval
    THEN [c EXCEPT !.ticking = c.ticking \ {c.interval}, !.interval = NoInterval]
    ELSE c

\* stopTimer (lines 81-86)
stopTimer(c) == [pauseTimer(c) EXCEPT !.hours = 0, !.minutes = 0, !.seconds = 0]

\* startInterval (lines 91-107): setInterval schedules a new interval and the
\* variable holds it, whatever it held.
startInterval(c) ==
    [c EXCEPT !.made = c.made + 1,
              !.interval = c.made + 1,
              !.ticking = c.ticking \cup {c.made + 1}]

\* isTimerRunning (lines 36-38)
isTimerRunning(c) ==
    c.interval # NoInterval /\ (c.hours > 0 \/ c.minutes > 0 \/ c.seconds > 0)

\* The callback of an interval without the stop at zero.
IntervalCallback_NeverStops(c) ==
    IF c.seconds - 1 >= 0 THEN [c EXCEPT !.seconds = c.seconds - 1]
    ELSE IF c.minutes - 1 >= 0 THEN [c EXCEPT !.seconds = 59, !.minutes = c.minutes - 1]
    ELSE [c EXCEPT !.seconds = 59, !.minutes = 59, !.hours = c.hours - 1]

\* The callback of an interval (lines 92-106).
IntervalCallback(c) ==
    LET d == IF c.seconds - 1 >= 0 THEN [c EXCEPT !.seconds = c.seconds - 1]
             ELSE IF c.minutes - 1 >= 0
             THEN [c EXCEPT !.seconds = 59, !.minutes = c.minutes - 1]
             ELSE [c EXCEPT !.seconds = 59, !.minutes = 59, !.hours = c.hours - 1]
    IN  IF d.hours <= 0 /\ d.minutes <= 0 /\ d.seconds <= 0 THEN stopTimer(d) ELSE d

\* The number of setInterval calls a run makes at most.
MaxIntervals == 3

\* The number of ticks followed after a start.
MaxTicks == 4

countdownFrame == <<calc, storeVars, config, timer>>

\* startTimer(duration) in seconds (lines 45-57).
CountdownStart(duration) ==
    /\ countdown.made < MaxIntervals
    /\ countdown' =
           IF duration = 0 \/ duration < 0
           THEN [countdown EXCEPT !.op = "rejected", !.was = CountdownNow(countdown)]
           ELSE LET stopped == stopTimer(countdown)
                    parts == toHMS(duration)
                IN  [startInterval([stopped EXCEPT !.hours = parts.hours,
                                                   !.minutes = parts.minutes,
                                                   !.seconds = parts.seconds])
                        EXCEPT !.op = "start", !.n = duration, !.ticks = 0,
                               !.was = CountdownNow(countdown)]
    /\ UNCHANGED countdownFrame

\* resumeTimer (lines 62-66)
CountdownResume ==
    /\ countdown.made < MaxIntervals
    /\ countdown' =
           [(IF countdown.hours > 0 \/ countdown.minutes > 0 \/ countdown.seconds > 0
             THEN startInterval(countdown) ELSE countdown)
               EXCEPT !.op = "resume", !.was = CountdownNow(countdown)]
    /\ UNCHANGED countdownFrame

CountdownPause ==
    /\ countdown' = [pauseTimer(countdown) EXCEPT !.op = "pause",
                                                 !.was = CountdownNow(countdown)]
    /\ UNCHANGED countdownFrame

CountdownStop ==
    /\ countdown' = [stopTimer(countdown) EXCEPT !.op = "stop",
                                                !.was = CountdownNow(countdown)]
    /\ UNCHANGED countdownFrame

\* A scheduled interval fires.
CountdownTick ==
    /\ countdown.ticking # {}
    /\ countdown' = [IntervalCallback(countdown)
                        EXCEPT !.op = "tick", !.ticks = countdown.ticks + 1,
                               !.was = CountdownNow(countdown)]
    /\ UNCHANGED countdownFrame

\* The durations startTimer is called with.
CountdownDurations == {0, -1, 2, 61}

InitCountdown == Constructed([given |-> Undefined, items |-> NoItems])

CountdownTickBounded == countdown.ticks < MaxTicks /\ CountdownTick

NextCountdown ==
    \/ \E duration \in CountdownDurations : CountdownStart(duration)
    \/ CountdownResume
    \/ CountdownPause
    \/ CountdownStop
    \/ CountdownTickBounded

SpecCountdown == InitCountdown /\ [][NextCountdown]_vars

\* ---- a countdown that is left to run ---------------------------------------

\* Whole seconds with a borrow from the minutes and from the hours on the way.
RunDurations == {1, 2, 61, 3600}

\* The number of startTimer calls of a run.
MaxRuns == 2

RunStart(duration) == countdown.made < MaxRuns /\ CountdownStart(duration)

NextCountdownRun ==
    \/ \E duration \in RunDurations : RunStart(duration)
    \/ CountdownTick

SpecCountdownRun == InitCountdown /\ [][NextCountdownRun]_vars

\* ------------------------------------------------------------------------
\* useTimer
\* ------------------------------------------------------------------------

\* The number Infinity.
Infinity == [t |-> "number", num |-> 0, str |-> "Infinity", xs |-> <<>>]

\* !duration || !Number.isFinite(duration) || duration < 0 (line 51)
TimerRejects(duration) ==
    IsNaN(duration) \/ duration = Infinity \/ duration.num = 0 \/ duration.num < 0

\* stopTimer (lines 65-74)
TimerStopTimer(t) ==
    [t EXCEPT !.scheduled = FALSE, !.endTime = NoEndTime,
              !.hours = 0, !.minutes = 0, !.seconds = 0]

\* startInterval (lines 79-82)
TimerStartInterval(t) == IF t.scheduled THEN t ELSE [t EXCEPT !.scheduled = TRUE]

\* updateRemaining (lines 87-100)
updateRemaining(t) ==
    IF t.endTime = NoEndTime THEN t
    ELSE LET diff == IF t.endTime - t.now < 0 THEN 0 ELSE (t.endTime - t.now) \div 10
         IN  IF diff <= 0 THEN TimerStopTimer(t)
             ELSE [t EXCEPT !.hours = diff \div 3600,
                            !.minutes = (diff % 3600) \div 60,
                            !.seconds = diff % 60]

\* isTimerRunning (lines 37-39)
TimerIsRunning(t) == t.endTime # NoEndTime /\ t.now < t.endTime

timerFrame == <<calc, storeVars, config, countdown>>

\* startTimer(duration) in seconds (lines 46-60).
TimerStart(duration) ==
    /\ timer' =
           IF TimerRejects(duration) THEN [timer EXCEPT !.op = "rejected"]
           ELSE [TimerStartInterval(updateRemaining(
                     [TimerStopTimer(timer) EXCEPT !.endTime = timer.now + duration.num]))
                    EXCEPT !.op = "start", !.n = duration.num]
    /\ UNCHANGED timerFrame

TimerStop ==
    /\ timer' = [TimerStopTimer(timer) EXCEPT !.op = "stop"]
    /\ UNCHANGED timerFrame

\* The scheduled interval fires.
TimerTick ==
    /\ timer.scheduled
    /\ timer' = [updateRemaining(timer) EXCEPT !.op = "tick"]
    /\ UNCHANGED timerFrame

\* The last tenth of a second the clock is followed to.
MaxNow == 60

\* Half a second passes.
TimerClock ==
    /\ timer.now + 5 <= MaxNow
    /\ timer' = [timer EXCEPT !.now = timer.now + 5, !.op = "clock"]
    /\ UNCHANGED timerFrame

\* The durations startTimer is called with: invalid ones, half a second, one
\* second, two and a half seconds.
TimerDurations == {Num(0), Num(-1), NaN, Infinity, Tenths(5), Num(1), Tenths(25)}

InitTimer == Constructed([given |-> Undefined, items |-> NoItems])

NextTimer ==
    \/ \E duration \in TimerDurations : TimerStart(duration)
    \/ TimerStop
    \/ TimerTick
    \/ TimerClock

SpecTimer == InitTimer /\ [][NextTimer]_vars

\* ------------------------------------------------------------------------
\* Properties of apply
\* ------------------------------------------------------------------------

SettledOutcomes == {"resolved", "digestFailed", "callbackThrew"}

C2_CommitsIffSnapshotDiffers ==
    hist.outcome = "resolved"
    => ((EventsOf(log, "sign") # <<>>) <=> hist.differs)

\* C3: an apply call made while the store is locked changes no field, invokes
\* no callback and writes nothing to storage; the processing of a call starts
\* only with a call made while the store is unlocked, never by itself after
\* the call in flight settles; and the call in flight commits at most once.
C3_LockedCallIsDropped ==
    /\ [](hist.dropped => /\ Len(EventsOf(log, "sign")) <= 1
                          /\ Len(EventsOf(log, "callback")) <= 1)
    /\ [][/\ (stats.locked /\ ncalls' = ncalls + 1)
             => UNCHANGED <<stats, storage, pc, params, log, committed, observed>>
          /\ (pc = "idle" /\ pc' # "idle")
             => (~stats.locked /\ ncalls' = ncalls + 1)]_vars

\* A call was dropped while another was in flight, and that one has resolved
\* with its one commit.
C3_Witness ==
    /\ hist.dropped
    /\ hist.outcome = "resolved"
    /\ Len(EventsOf(log, "sign")) = 1
    /\ Len(EventsOf(log, "callback")) = 1

\* C4: the lock is held exactly while one apply is between taking it and
\* settling; once that apply has resolved, or its digest has rejected, or its
\* callback has thrown, locked is false.
C4_LockReleasedOnSettlement ==
    /\ stats.locked <=> pc # "idle"
    /\ stats.locked <=> hist.outcome = "pending"
    /\ hist.outcome \in SettledOutcomes => ~stats.locked

\* An apply whose digest rejected, followed by an apply that was processed
\* and whose callback threw, with the lock free again.
C4_Witness ==
    /\ hist.prev.outcome = "digestFailed"
    /\ hist.outcome = "callbackThrew"
    /\ ~stats.locked

\* C5: when the signature of the merged snapshot equals the committed
\* signature, apply invokes no callback, writes nothing to storage and leaves
\* the committed signature as it was.
C5_NoEffectsOnEqualSignature ==
    (hist.outcome # "none" /\ sign(params) = hist.sign0)
    => /\ EventsOf(log, "callback") = <<>>
       /\ EventsOf(log, "set") = <<>>
       /\ stats.sign = hist.sign0

\* An apply with a callback registered that found its signature committed
\* already and has resolved.
C5_Witness ==
    /\ hist.outcome = "resolved"
    /\ hist.reg
    /\ sign(params) = hist.sign0

\* C6: in one apply the signature is stored at most once, then the callback
\* is invoked at most once, with the snapshot of the merged fields and the
\* encoding of that snapshot, then the fields are persisted, each key at most
\* once; nothing is persisted and no callback invoked before the signature
\* is stored.
C6_CommitOrder ==
    /\ Len(EventsOf(log, "sign")) <= 1
    /\ Len(EventsOf(log, "callback")) <= 1
    /\ \A i \in 1..Len(log) :
          /\ log[i].e = "sign" => log[i].text = sign(Snapshot(stats))
          /\ log[i].e = "callback"
             => /\ \E j \in 1..(i - 1) : log[j].e = "sign"
                /\ log[i].snap = Snapshot(stats)
                /\ log[i].text = encode(Snapshot(stats))
          /\ log[i].e = "set"
             => /\ \E j \in 1..(i - 1) : log[j].e = "sign"
                /\ \A j \in (i + 1)..Len(log) : log[j].e = "set" /\ log[j].key # log[i].key
                /\ \A j \in 1..Len(log) : log[j].e = "callback" => j < i

\* An apply that stored the signature, invoked the callback and persisted
\* both limit and sorts.
C6_Witness ==
    /\ hist.outcome = "resolved"
    /\ Len(EventsOf(log, "sign")) = 1
    /\ Len(EventsOf(log, "callback")) = 1
    /\ Len(EventsOf(log, "set")) = 2

\* C7: whenever no apply is in progress and the callback has been invoked at
\* least once, the committed signature is the signature of the snapshot last
\* handed to the callback.
C7_SignatureOfObservedSnapshot ==
    (~stats.locked /\ observed # NoSnapshot) => stats.sign = sign(observed)

\* The callback has been invoked, and a later apply merged other fields and
\* failed in its digest, so that the fields differ from the observed snapshot.
C7_Witness ==
    /\ ~stats.locked
    /\ observed # NoSnapshot
    /\ hist.outcome = "digestFailed"
    /\ ~SameValue(Snapshot(stats), observed)

\* C8, as stated: an apply call that completes computes the digest of its
\* snapshot exactly once and writes the signature at most once.
C8_DigestExactlyOnce ==
    hist.outcome = "resolved"
    => /\ Len(EventsOf(log, "digest")) = 1
       /\ Len(EventsOf(log, "sign")) <= 1

\* C8, amended: an apply call that completes writes the signature at most
\* once, as the whole digest of its snapshot; it computes that digest once
\* when the signature is unchanged, and a second time when it stores it.
C8_DigestOncePlusOncePerWrite ==
    hist.outcome \in {"resolved", "callbackThrew"}
    => /\ Len(EventsOf(log, "sign")) <= 1
       /\ Len(EventsOf(log, "digest")) = 1 + Len(EventsOf(log, "sign"))
       /\ \A i \in 1..Len(log) :
             log[i].e = "sign" => log[i].text = sign(params) /\ stats.sign = log[i].text

\* An apply that resolved after two digests and one write of the signature.
C8_Witness ==
    /\ hist.outcome = "resolved"
    /\ Len(EventsOf(log, "digest")) = 2
    /\ Len(EventsOf(log, "sign")) = 1

\* ------------------------------------------------------------------------
\* Properties of page and limit
\* ------------------------------------------------------------------------

\* The incoming value coerces to a strictly positive number.
CoercesToPositive(v) == ~IsNaN(Number(v)) /\ Number(v).num > 0

\* C9: an apply that is processed sets page to the number its page coerces
\* to when that number is strictly positive and leaves page as it was
\* otherwise (zero, negative, non-numeric, absent); the same for limit;
\* whatever the other of the two and the rest of the partial are.
C9_PageAndLimitMerge ==
    [][\A f \in FieldPartials :
          (~stats.locked /\ FieldApply(f))
          => /\ stats'.page = IF CoercesToPositive(Prop(f, "page"))
                              THEN Number(Prop(f, "page")) ELSE stats.page
             /\ stats'.limit = IF CoercesToPositive(Prop(f, "limit"))
                               THEN Number(Prop(f, "limit")) ELSE stats.limit]_vars

\* From the hard-coded defaults, an apply whose page was rejected and whose
\* limit "3" and search were accepted.
C9_Witness ==
    /\ hist.outcome = "resolved"
    /\ hist.prev.outcome = "none"
    /\ stats.page = Num(1)
    /\ stats.limit = Num(3)
    /\ stats.search = Str("foo")

IsPositiveInteger(v) == IsInteger(v) /\ v.num > 0

\* C10, as stated: in every reachable state page and limit are strictly
\* positive integers.
C10_PageAndLimitPositiveIntegers ==
    IsPositiveInteger(stats.page) /\ IsPositiveInteger(stats.limit)

\* ------------------------------------------------------------------------
\* Properties of search, sorts and filters
\* ------------------------------------------------------------------------

\* C11: an apply that is processed sets search to the incoming search when
\* that is a non-empty string and leaves search as it was otherwise (empty
\* string, non-string, absent).
C11_SearchMerge ==
    [][\A f \in MergePartials :
          (~stats.locked /\ MergeApply(f))
          => stats'.search =
                IF Prop(f, "search").t = "string" /\ Prop(f, "search").str # ""
                THEN Prop(f, "search") ELSE stats.search]_vars

\* A store constructed with search "init" after the apply that carries an
\* empty search beside sorts [b:desc]: search is still "init".
C11_Witness ==
    /\ hist.outcome = "resolved"
    /\ stats.search = Str("init")
    /\ stats.sorts = Arr(<<SortB>>)

IsWellFormedSort(x) ==
    /\ x.t = "object"
    /\ Prop(x, "field").t = "string" /\ Prop(x, "field").str # ""
    /\ Prop(x, "order") \in {Str("asc"), Str("desc")}

\* C12, as stated: in every reachable state every entry of sorts has a
\* non-empty field and an order of "asc" or "desc".
C12_SortsWellFormed ==
    \A i \in 1..Len(stats.sorts.xs) : IsWellFormedSort(stats.sorts.xs[i])

\* C13: an apply that is processed sets sorts to the incoming sorts when
\* that is an array, as it is (same entries, same order, duplicates and the
\* empty array included), and leaves sorts as it was otherwise.
C13_SortsReplaced ==
    [][\A f \in MergePartials :
          (~stats.locked /\ MergeApply(f))
          => stats'.sorts = IF Prop(f, "sorts").t = "array"
                            THEN Prop(f, "sorts") ELSE stats.sorts]_vars

\* After an apply that replaced the sorts, an apply with the same entry
\* twice has resolved and the sorts hold it twice.
C13_Witness ==
    /\ hist.outcome = "resolved"
    /\ hist.prev.outcome = "resolved"
    /\ stats.sorts = Arr(<<SortA, SortA>>)

\* The entries of a map whose value is neither undefined nor an empty
\* sequence nor an empty mapping.
WithoutZeroEntries(v) ==
    Obj(SelectSeq(v.xs, LAMBDA x : x.v \notin {Undefined, Arr(<<>>), Obj(<<>>)}))

\* C14: an apply that is processed sets filters to the incoming map without
\* its zero entries when filters is a map, whatever the previous filters,
\* and leaves filters as they were otherwise.
C14_FiltersReplaced ==
    [][\A f \in MergePartials :
          (~stats.locked /\ MergeApply(f))
          => stats'.filters = IF Prop(f, "filters").t = "object"
                              THEN WithoutZeroEntries(Prop(f, "filters"))
                              ELSE stats.filters]_vars

\* After an apply that set filters, apply({filters: {a: [], b: {}, c: "x"}})
\* has resolved and filters are {c: "x"}.
C14_Witness ==
    /\ hist.outcome = "resolved"
    /\ hist.prev.outcome = "resolved"
    /\ stats.search = Str("foo")
    /\ stats.filters = Obj(<<Entry("c", Str("x"))>>)

\* C15, as stated: after an apply completes, the filters of the store and
\* the filters of the snapshot handed to the callback hold no entry whose
\* value is undefined, an empty sequence or an empty mapping.
C15_NoZeroEntriesInFilters ==
    hist.outcome = "resolved"
    => /\ WithoutZeroEntries(FiltersView(stats)) = FiltersView(stats)
       /\ \A i \in 1..Len(log) :
             log[i].e = "callback"
             => WithoutZeroEntries(Get(log[i].snap, "filters")) = Get(log[i].snap, "filters")

\* ------------------------------------------------------------------------
\* Properties of failures and of persistence
\* ------------------------------------------------------------------------

\* C16: an apply whose digest computation fails rejects without committing:
\* it has invoked no callback, written nothing to storage and left the
\* committed signature as it was.
C16_DigestFailureCommitsNothing ==
    hist.outcome = "digestFailed"
    => /\ EventsOf(log, "callback") = <<>>
       /\ EventsOf(log, "set") = <<>>
       /\ EventsOf(log, "sign") = <<>>
       /\ stats.sign = hist.sign0
       /\ (committed # NoSnapshot => stats.sign = sign(committed))

\* An apply with a callback registered whose snapshot differed from the
\* committed one and whose second digest, the one of sign, rejected.
C16_Witness ==
    /\ hist.outcome = "digestFailed"
    /\ hist.reg
    /\ Len(EventsOf(log, "digest")) = 1
    /\ committed # NoSnapshot

\* C17: an apply one of whose storage writes fails (set returns false) still
\* resolves, and it has stored the signature of its snapshot and invoked the
\* registered callback with that snapshot, as with a working storage.
C17_StorageFailureSwallowed ==
    (\E i \in 1..Len(log) : log[i].e = "set" /\ ~log[i].ok)
    => /\ hist.outcome = "resolved"
       /\ ~stats.locked
       /\ Len(EventsOf(log, "sign")) = 1
       /\ stats.sign = sign(params)
       /\ committed = params
       /\ hist.reg => /\ Len(EventsOf(log, "callback")) = 1
                      /\ EventsOf(log, "callback")[1].snap = params
                      /\ EventsOf(log, "callback")[1].ok
                      /\ observed = params

\* An apply with a callback registered that committed over a storage whose
\* writes fail: nothing is stored.
C17_Witness ==
    /\ hist.outcome = "resolved"
    /\ hist.reg
    /\ Len(EventsOf(log, "callback")) = 1
    /\ Len(EventsOf(log, "set")) = 2
    /\ \A i \in 1..Len(log) : log[i].e = "set" => ~log[i].ok
    /\ storage = NoItems

\* The caller has allowlisted the field: by leaving storables out, by "all",
\* or by a list that holds it.
Allowlisted(key) ==
    LET storables == Prop(given, "storables")
    IN  \/ storables = Undefined
        \/ storables = Str("all")
        \/ storables.t = "array" /\ \E i \in 1..Len(storables.xs) : storables.xs[i] = Str(key)

\* C18, as stated: whatever storables the caller supplies, an apply calls
\* storage.set only for a field the caller allowlisted.
C18_OnlyAllowlistedWritten ==
    \A i \in 1..Len(log) : log[i].e = "set" => Allowlisted(log[i].key)

\* C19, as stated: after an apply that commits with storage writes that
\* succeed, the value stored for limit and for sorts is the encoding of that
\* field in the committed snapshot, sorts replaced by the empty list included.
C19_StorageHoldsCommitted ==
    (/\ hist.outcome = "resolved"
     /\ EventsOf(log, "sign") # <<>>
     /\ \A i \in 1..Len(log) : log[i].e = "set" => log[i].ok)
    => /\ Allowlisted("limit") => StorageString(storage, "limit") = Str(String(stats.limit))
       /\ Allowlisted("sorts") => StoredSortsText(storage) = encodeSorts(stats.sorts)

\* The limit a store should start with: the stored one when positive and
\* allowlisted, else the caller's default, else the hard-coded 20.
ExpectedInitialLimit ==
    LET stored == StorageNumber(storage, "limit")
        default == Prop(Prop(given, "defaults"), "limit")
    IN  IF Allowlisted("limit") /\ stored # Undefined /\ stored.num > 0 THEN stored
        ELSE IF default # Undefined THEN default
        ELSE Num(20)

\* C20, as stated: a store starts with the positive limit persisted under
\* its prefix when limit is allowlisted (by a list, by "all" or by default),
\* else with the caller's default, else with the hard-coded default.
C20_StartsWithPersistedLimit ==
    ncalls = 0 => stats.limit = ExpectedInitialLimit

\* The stats of a store constructed now, with the same options, over the
\* storage as it is.
Reconstructed == InitialStats(OptionsWithDefaults(given, storage))

\* C21, as stated: when a store with sorts allowlisted has committed and
\* persisted a non-empty sorts list, a store constructed afterwards with the
\* same options over the same storage starts with that sorts list.
C21_SortsSurviveReconstruction ==
    (/\ hist.outcome = "resolved"
     /\ Allowlisted("sorts")
     /\ \E i \in 1..Len(log) : log[i].e = "set" /\ log[i].key = "sorts" /\ log[i].ok)
    => Reconstructed.sorts = stats.sorts

\* ------------------------------------------------------------------------
\* Properties of the encoder
\* ------------------------------------------------------------------------

\* The names of the entries of an object.
KeysOf(obj) == {obj.xs[i].k : i \in 1..Len(obj.xs)}

\* The four fields that a round trip is compared on.
SameFields(a, b) ==
    /\ Prop(a, "page") = Prop(b, "page")
    /\ Prop(a, "limit") = Prop(b, "limit")
    /\ Prop(a, "sorts") = Prop(b, "sorts")
    /\ SameValue(Prop(a, "filters"), Prop(b, "filters"))

\* C22, as stated: decoding the encoding of a state whose filters values are
\* primitives, flat arrays of one or more primitives or flat maps of
\* primitives, and whose sorts are well-formed, gives back the state's page,
\* limit, sorts and filters.
C22_RoundTrip ==
    calc.op = "roundTrip" => calc.res # Thrown /\ SameFields(calc.res, calc.arg)

\* What does hold: the round trip gives the state back when no filters value
\* is an array of one element and no filters key is the name of a parameter
\* of the store.
HasOneElementArray(state) ==
    \E i \in 1..Len(Prop(state, "filters").xs) :
        /\ isArray(Prop(state, "filters").xs[i].v)
        /\ Len(Prop(state, "filters").xs[i].v.xs) = 1

C22_RoundTripExceptOneElementArrays ==
    (/\ calc.op = "roundTrip"
     /\ ~HasOneElementArray(calc.arg)
     /\ KeysOf(Prop(calc.arg, "filters")) \cap ReservedKeys = {})
    => calc.res # Thrown /\ SameFields(calc.res, calc.arg)

\* What does hold: every query key that is not literally reserved and whose
\* decoded, trimmed name is not blank has one filters entry under that name.
C23_OtherKeysBecomeEntries ==
    (calc.op = "decode" /\ calc.res # Thrown)
    => LET entries == ParamsParse(calc.arg.str)
           filters == Prop(calc.res, "filters")
       IN  /\ \A i \in 1..Len(entries) :
                  (entries[i].k \notin ReservedKeys
                   /\ trim(decodeValue(entries[i].k)) # "")
                  => trim(decodeValue(entries[i].k)) \in KeysOf(filters)
           /\ Cardinality(KeysOf(filters)) = Len(filters.xs)

\* C23, as stated: for every query string, the filters map that decode
\* returns has no key named page, limit, search or sorts, and every other
\* query key with a non-blank name has exactly one filters entry.
C23_ReservedNeverInFilters ==
    /\ (calc.op = "decode" /\ calc.res # Thrown)
       => KeysOf(Prop(calc.res, "filters")) \cap ReservedKeys = {}
    /\ C23_OtherKeysBecomeEntries

\* The parameter of a query as decode reads it: undefined when absent.
ParamOf(query, name) ==
    IF ParamsHas(ParamsParse(query), name)
    THEN Str(ParamsGet(ParamsParse(query), name)) ELSE Undefined

IsPositiveIntegerParam(v) == isNumeric(v) /\ IsPositiveInteger(Number(v))

\* What does hold: decode returns the number of a page or limit parameter
\* that is strictly positive, a fraction included, and zero otherwise; a
\* zero is a page or limit that the merge of apply leaves as it was.
C24_DecodeAcceptsPositiveNumbers ==
    (calc.op = "decode" /\ calc.res # Thrown)
    => /\ LET v == ParamOf(calc.arg.str, "page")
          IN  IF isNumeric(v) /\ Number(v).num > 0
              THEN Prop(calc.res, "page") = Number(v)
              ELSE /\ Prop(calc.res, "page") = Num(0)
                   /\ MergePage(stats, calc.res).page = stats.page
       /\ LET v == ParamOf(calc.arg.str, "limit")
          IN  IF isNumeric(v) /\ Number(v).num > 0
              THEN Prop(calc.res, "limit") = Number(v)
              ELSE /\ Prop(calc.res, "limit") = Num(0)
                   /\ MergeLimit(stats, calc.res).limit = stats.limit

\* C24, as stated: decode returns a page or a limit only for a parameter that
\* is a strictly positive integer; for a parameter that is absent, zero,
\* negative, fractional or not a number the decoded partial carries no page
\* or limit that an apply would take, so the store keeps its own.
C24_DecodeAcceptsOnlyPositiveIntegers ==
    (calc.op = "decode" /\ calc.res # Thrown)
    => /\ LET v == ParamOf(calc.arg.str, "page")
          IN  IF IsPositiveIntegerParam(v)
              THEN Prop(calc.res, "page") = Number(v)
              ELSE MergePage(stats, calc.res).page = stats.page
       /\ LET v == ParamOf(calc.arg.str, "limit")
          IN  IF IsPositiveIntegerParam(v)
              THEN Prop(calc.res, "limit") = Number(v)
              ELSE MergeLimit(stats, calc.res).limit = stats.limit

\* The primitive that a piece of a value stands for, by precedence: "true",
\* "false", "[null]", a numeral, otherwise the string itself.
Inferred(piece) ==
    LET d == decodeURIComponent(piece)
    IN  CASE d = "true" -> Bool(TRUE)
          [] d = "false" -> Bool(FALSE)
          [] d \notin {"true", "false"} /\ d = "[null]" -> JSNull
          [] d \notin {"true", "false", "[null]"} /\ IsNumeral(d) -> Number(Str(d))
          [] OTHER -> Str(d)

\* The filter name of a query key: blank when the key is reserved.
FilterName(key) == IF key \in ReservedKeys THEN "" ELSE trim(decodeValue(key))

\* got is what the classification makes of the value of a parameter.
Classified(value, got) ==
    LET pieces == split(value, ",")
    IN  IF includes(value, ",") /\ ~includes(value, ":")
        THEN /\ isArray(got)
             /\ Len(got.xs) = Len(pieces)
             /\ \A j \in 1..Len(pieces) : got.xs[j] = Inferred(pieces[j])
        ELSE IF includes(value, ":")
        THEN /\ isObject(got)
             /\ \A j \in 1..Len(got.xs) :
                    \E n \in 1..Len(pieces) :
                        /\ got.xs[j].k = decodeURIComponent(trim(FirstOf(pieces[n])))
                        /\ got.xs[j].v = Inferred(SecondOf(pieces[n]))
             /\ \A n \in 1..Len(pieces) :
                    (trim(FirstOf(pieces[n])) # "" /\ SecondOf(pieces[n]) # "")
                    => decodeURIComponent(trim(FirstOf(pieces[n]))) \in KeysOf(got)
        ELSE ~isArray(got) /\ ~isObject(got) /\ got = Inferred(value)

\* What the example query decodes to.
ExampleDecoded ==
    StateOf(Num(3), Num(5), Str("foo"),
            Arr(<<SortOf("price", "desc"), SortOf("id", "asc")>>),
            Obj(<<Entry("category", Arr(<<Str("books"), Str("ebooks")>>)),
                  Entry("available", Bool(TRUE))>>))

\* C25: decode classifies the value of every parameter that is not reserved:
\* with ',' and without ':' it is an array of the inferred pieces, with ':'
\* it is a map, otherwise it is the inferred scalar, where inference takes
\* "true", "false", "[null]", a numeral and any other string in that order;
\* and the example query decodes to page 3, limit 5, search "foo", sorts
\* [price desc, id asc], filters {category: ["books","ebooks"], available:
\* true}.
C25_ValuesClassified ==
    (calc.op = "decode" /\ calc.res # Thrown)
    => LET entries == ParamsParse(calc.arg.str)
           filters == Prop(calc.res, "filters")
       IN  /\ \A i \in 1..Len(entries) :
                  (/\ FilterName(entries[i].k) # ""
                   /\ \A j \in (i + 1)..Len(entries) :
                          FilterName(entries[j].k) # FilterName(entries[i].k))
                  => Classified(entries[i].v, Get(filters, FilterName(entries[i].k)))
           /\ calc.arg.str = ExampleQuery => calc.res = ExampleDecoded

\* The example query has been decoded, with an array and a scalar in filters.
C25_Witness ==
    /\ calc.op = "decode"
    /\ calc.arg.str = ExampleQuery
    /\ isArray(Get(Prop(calc.res, "filters"), "category"))
    /\ Get(Prop(calc.res, "filters"), "available") = Bool(TRUE)

\* An entry of an encoded list of sorts that is well-formed: a non-blank
\* field, a ':' and an order of asc or desc.
IsWellFormedPiece(piece) ==
    /\ includes(piece, ":")
    /\ trim(FirstOf(piece)) # ""
    /\ SecondOf(piece) \in {"asc", "desc"}

SortOfPiece(piece) == SortOf(decodeURIComponent(trim(FirstOf(piece))), SecondOf(piece))

\* The well-formed entries of an encoded list, in their order.
WellFormedPieces(encoded) ==
    LET pieces == SelectSeq(split(encoded, ","), IsWellFormedPiece)
    IN  Arr([i \in 1..Len(pieces) |-> SortOfPiece(pieces[i])])

\* C26: decoding the encoding of a list of sorts yields its well-formed
\* entries in their order, duplicates kept, so a list of well-formed sorts
\* comes back as it was; and decode of a sorts parameter with malformed
\* entries among the well-formed ones yields the well-formed ones in their
\* order.
C26_SortsOrderPreserved ==
    /\ calc.op = "sorts"
       => /\ calc.res = Arr(SelectSeq(calc.arg.xs, IsWellFormedSort))
          /\ (\A i \in 1..Len(calc.arg.xs) : IsWellFormedSort(calc.arg.xs[i]))
             => calc.res = calc.arg
    /\ (calc.op = "decode" /\ calc.res # Thrown /\ ParamOf(calc.arg.str, "sorts") # Undefined)
       => Prop(calc.res, "sorts") = WellFormedPieces(trim(ParamOf(calc.arg.str, "sorts").str))

\* A list with malformed entries between repeated well-formed ones has been
\* encoded and decoded, and three of its five entries came back.
C26_Witness ==
    /\ calc.op = "sorts"
    /\ Len(calc.arg.xs) = 5
    /\ calc.res = Arr(<<SortB, SortA, SortB>>)

\* C27, as stated: decode raises for no query string; a fragment that cannot
\* be decoded is dropped and the other parameters are decoded.
C27_DecodeNeverThrows ==
    calc.op = "decode"
    => /\ calc.res # Thrown
       /\ ParamOf(calc.arg.str, "x") # Undefined
          => Get(Prop(calc.res, "filters"), "x") = Inferred(ParamOf(calc.arg.str, "x").str)

\* What does hold: decode raises only for a query that holds a '%' which is
\* not followed by two hexadecimal digits once the query is parsed; bad
\* sorts, pages and limits are dropped without raising.
C27_ThrowsOnlyOnBadPercent ==
    (calc.op = "decode" /\ calc.res = Thrown)
    => \E i \in 1..Len(ParamsParse(calc.arg.str)) :
           \/ includes(ParamsParse(calc.arg.str)[i].k, "%")
           \/ includes(ParamsParse(calc.arg.str)[i].v, "%")

\* ------------------------------------------------------------------------
\* Properties of the signer
\* ------------------------------------------------------------------------

\* C28: two values that differ only in the insertion order of object keys,
\* at any depth, have the same digest, and validate of one against the
\* signature of the other is true.
C28_KeyOrderIndependent ==
    /\ (calc.op = "sign" /\ SameValue(calc.arg, calc.arg2)) => calc.res = calc.res2
    /\ (calc.op = "validate" /\ SameValue(calc.arg, calc.arg2)) => calc.res = Bool(TRUE)

\* Two different values that differ only in the order of keys three objects
\* deep have been signed, and one validated against the other's signature.
C28_Witness ==
    /\ calc.op = "validate"
    /\ calc.arg # calc.arg2
    /\ SameValue(calc.arg, calc.arg2)
    /\ HasKey(calc.arg, "o")
    /\ calc.res = Bool(TRUE)

\* a and b are the same but for the order of the elements of their arrays.
RECURSIVE SameButArrayOrder(_, _)
SameButArrayOrder(a, b) ==
    IF a.t # b.t THEN FALSE
    ELSE IF a.t = "object"
    THEN /\ Len(a.xs) = Len(b.xs)
         /\ \A i \in 1..Len(a.xs) :
                /\ a.xs[i].k = b.xs[i].k
                /\ SameButArrayOrder(a.xs[i].v, b.xs[i].v)
    ELSE IF a.t = "array"
    THEN /\ Len(a.xs) = Len(b.xs)
         /\ \E p \in Permutations(1..Len(a.xs)) :
                \A i \in 1..Len(a.xs) : a.xs[i] = b.xs[p[i]]
    ELSE a = b

\* What does hold: two arrays that are themselves the signed values and
\* hold the same distinct elements in another order have different digests.
C29_TopLevelArraySensitive ==
    (/\ calc.op = "sign"
     /\ isArray(calc.arg)
     /\ calc.arg # calc.arg2
     /\ SameButArrayOrder(calc.arg, calc.arg2))
    => calc.res # calc.res2

\* C29, as stated: two values that differ only in the order of the distinct
\* elements of an array, be the array the signed value or the value of an
\* object key, have different digests.
C29_ArrayOrderSensitive ==
    (/\ calc.op = "sign"
     /\ calc.arg # calc.arg2
     /\ SameButArrayOrder(calc.arg, calc.arg2))
    => calc.res # calc.res2

\* ------------------------------------------------------------------------
\* Properties of the response extractor
\* ------------------------------------------------------------------------

\* C30: a parseResponse with a value that is not an object leaves the
\* retained response empty, whatever it held, so that total, from, to, pages,
\* meta and records report what they report of an absent field (undefined,
\* and no records), and leaves page, limit, search, sorts and filters of the
\* store as they were.
C30_NonObjectResetsResponse ==
    [][\A r \in ResponseValues :
          (~isObject(r) /\ ResponseCall(r))
          => /\ response' = Obj(<<>>)
             /\ ResponseGetters(response') =
                    [total |-> Undefined, from |-> Undefined, to |-> Undefined,
                     pages |-> Undefined, meta |-> Undefined,
                     records |-> Arr(<<>>), isEmpty |-> TRUE]
             /\ stats'.page = stats.page
             /\ stats'.limit = stats.limit
             /\ stats'.search = stats.search
             /\ stats'.sorts = stats.sorts
             /\ stats'.filters = stats.filters]_vars

\* The store took page 7 from a response, which came with a total, metadata
\* and records, and the retained response is empty again.
C30_Witness ==
    /\ stats.page = Num(7)
    /\ response = Obj(<<>>)
    /\ ncalls >= 2

\* The partial carries the field exactly when the retained value passes the
\* test, and then carries that value.
Carries(partial, name, passes, value) ==
    IF passes THEN Get(partial, name) = value ELSE ~HasKey(partial, name)

\* C31: a parseResponse with an object assigns its fields over the retained
\* response, the fields it lacks keeping the values of earlier responses, and
\* the partial handed to apply is read from the retained response: it has
\* page and limit when the retained value is numeric and positive, search
\* when it is a non-empty string, sorts when it is a non-empty array and
\* filters when it is a non-empty object, and nothing else.
C31_PartialFromRetainedResponse ==
    [][\A r \in ResponseValues :
          (isObject(r) /\ ResponseCall(r))
          => LET partial == ResponseParse(response', r)
                 page == Get(response', "page")
                 limit == Get(response', "limit")
                 search == Get(response', "search")
                 sorts == Get(response', "sorts")
                 filters == Get(response', "filters")
             IN  /\ \A k \in KeysOf(response) \cup KeysOf(r) :
                        Get(response', k) = IF HasKey(r, k) THEN Get(r, k)
                                            ELSE Get(response, k)
                 /\ KeysOf(response') = KeysOf(response) \cup KeysOf(r)
                 /\ Carries(partial, "page", CoercesToPositive(page) /\ isNumeric(page),
                            Number(page))
                 /\ Carries(partial, "limit", CoercesToPositive(limit) /\ isNumeric(limit),
                            Number(limit))
                 /\ Carries(partial, "search", isString(search) /\ search.str # "", search)
                 /\ Carries(partial, "sorts", isArray(sorts) /\ Len(sorts.xs) > 0, sorts)
                 /\ Carries(partial, "filters", isObject(filters) /\ Len(filters.xs) > 0,
                            filters)
                 /\ KeysOf(partial) \subseteq {"page", "limit", "search", "sorts", "filters"}
                 /\ ~stats.locked
                    => stats' = Merge([stats EXCEPT !.locked = TRUE], partial)]_vars

\* The retained response holds the page of one response and the search of
\* another one that had no page, and the store took both.
C31_Witness ==
    /\ Get(response, "page") = Num(7)
    /\ Get(response, "search") = Str("foo")
    /\ stats.page = Num(7)
    /\ stats.search = Str("foo")
    /\ stats.limit = Num(5)

\* ------------------------------------------------------------------------
\* Properties of useConfig
\* ------------------------------------------------------------------------

\* Along the paths that have no strategy: a key that the source lacks or
\* gives as undefined is in new as it was in old, a key that the source
\* gives as a primitive or an array holds that value, and a key that the
\* source gives as an object over an object obeys the same below it.
RECURSIVE SafeByDefault(_, _, _, _, _)
SafeByDefault(old, new, source, path, strategies) ==
    \A key \in KeysOf(old) \cup KeysOf(source) \cup KeysOf(new) :
        LET currentPath == IF path # "" THEN path \o "." \o key ELSE key
            sourceValue == Get(source, key)
        IN  IF StrategyOf(strategies, currentPath) # Undefined THEN TRUE
            ELSE IF sourceValue = Undefined
            THEN Get(new, key) = Get(old, key) /\ HasKey(new, key) = HasKey(old, key)
            ELSE IF ~isObject(sourceValue) THEN Get(new, key) = sourceValue
            ELSE IF isObject(Get(old, key))
            THEN SafeByDefault(Get(old, key), Get(new, key), sourceValue,
                               currentPath, strategies)
            ELSE TRUE

\* C32: a set changes nothing under a key that the partial lacks or gives as
\* undefined, at the top and in nested objects, when the path has no
\* strategy, and puts a defined primitive or an array in the place of the
\* previous value.
C32_UndefinedIgnoredByDefault ==
    config.source # Undefined
    => SafeByDefault(config.before, config.value, config.source, "", config.options)

\* b.c was set to 5 and the last set gave it as undefined, with no strategy.
C32_Witness ==
    /\ config.source = Obj(<<Entry("b", Obj(<<Entry("c", Undefined)>>))>>)
    /\ config.options = Undefined
    /\ Get(Get(config.before, "b"), "c") = Num(5)
    /\ Get(Get(config.value, "b"), "c") = Num(5)

\* ------------------------------------------------------------------------
\* Properties of useCountdown
\* ------------------------------------------------------------------------

\* The remaining time is what it was before the last call.
SameTime ==
    /\ countdown.hours = countdown.was.hours
    /\ countdown.minutes = countdown.was.minutes
    /\ countdown.seconds = countdown.was.seconds

WasAtZero ==
    countdown.was.hours <= 0 /\ countdown.was.minutes <= 0 /\ countdown.was.seconds <= 0

\* What does hold: neither pauseTimer nor resumeTimer changes hours, minutes
\* or seconds, pauseTimer clears the interval the variable holds, resumeTimer
\* at zero changes nothing, and resumeTimer at a non-zero time schedules one
\* new interval, on a paused timer and on a running timer alike.
C33_ResumeSchedulesWheneverNonZero ==
    /\ countdown.op = "pause"
       => /\ SameTime
          /\ countdown.interval = NoInterval
          /\ countdown.ticking = countdown.was.ticking \ {countdown.was.interval}
    /\ countdown.op = "resume"
       => /\ SameTime
          /\ IF WasAtZero
             THEN /\ countdown.interval = countdown.was.interval
                  /\ countdown.ticking = countdown.was.ticking
             ELSE /\ countdown.interval \notin countdown.was.ticking \cup {NoInterval}
                  /\ countdown.ticking = countdown.was.ticking \cup {countdown.interval}

\* C33, as stated: pauseTimer stops the ticking and leaves hours, minutes and
\* seconds; resumeTimer schedules an interval only on a timer that is paused
\* (no interval active) at a non-zero time, which goes on from that time, and
\* changes nothing on a running timer or at zero.
C33_PauseAndResume ==
    /\ countdown.op = "pause" => SameTime /\ countdown.ticking = {}
    /\ countdown.op = "resume"
       => /\ SameTime
          /\ IF countdown.was.ticking = {} /\ ~WasAtZero
             THEN /\ countdown.interval # NoInterval
                  /\ countdown.ticking = {countdown.interval}
             ELSE /\ countdown.interval = countdown.was.interval
                  /\ countdown.ticking = countdown.was.ticking

\* C38, as stated: at most one interval is ticking, none after pauseTimer or
\* stopTimer, so that hours, minutes and seconds stay as they are until the
\* next startTimer or resumeTimer, and they are never negative.
C38_AtMostOneInterval ==
    /\ Cardinality(countdown.ticking) <= 1
    /\ countdown.op \in {"pause", "stop"} => countdown.ticking = {}
    /\ countdown.hours >= 0 /\ countdown.minutes >= 0 /\ countdown.seconds >= 0

\* The remaining time in seconds.
Remaining == countdown.hours * 3600 + countdown.minutes * 60 + countdown.seconds

\* C40: a countdown started with n whole seconds and left to run has n less
\* the number of ticks remaining after every tick, with minutes and seconds
\* in 0..59; it is running until the n-th tick, and at the n-th tick hours,
\* minutes and seconds are 0, the interval is cleared and isTimerRunning is
\* false.
C40_ReachesZeroAfterNTicks ==
    countdown.op \in {"start", "tick"}
    => /\ countdown.ticks <= countdown.n
       /\ Remaining = countdown.n - countdown.ticks
       /\ countdown.hours >= 0
       /\ countdown.minutes \in 0..59
       /\ countdown.seconds \in 0..59
       /\ IF countdown.ticks < countdown.n
          THEN isTimerRunning(countdown) /\ countdown.ticking = {countdown.interval}
          ELSE /\ countdown.hours = 0 /\ countdown.minutes = 0 /\ countdown.seconds = 0
               /\ countdown.interval = NoInterval
               /\ countdown.ticking = {}
               /\ ~isTimerRunning(countdown)

\* The 3600th tick of a countdown of one hour.
C40_Witness ==
    /\ countdown.op = "tick"
    /\ countdown.n = 3600
    /\ countdown.ticks = 3600
    /\ countdown.was.seconds = 1
    /\ Remaining = 0
    /\ countdown.ticking = {}

\* ------------------------------------------------------------------------
\* Properties of useTimer
\* ------------------------------------------------------------------------

\* C39, as stated: an interval is scheduled only while endTime is set.
C39_IntervalOnlyWhileEndTimeSet ==
    timer.scheduled => timer.endTime # NoEndTime

\* What does hold: an interval is scheduled without an end time only after a
\* startTimer with a duration shorter than one second; stopTimer and the tick
\* that finds no whole second left clear the interval, and a rejected
\* startTimer changes nothing.
C39_IntervalLeftOnlyByShortStart ==
    /\ (timer.scheduled /\ timer.endTime = NoEndTime) => (timer.n > 0 /\ timer.n < 10)
    /\ timer.op = "stop" => ~timer.scheduled /\ timer.endTime = NoEndTime
    /\ (timer.op = "tick" /\ timer.endTime - timer.now < 10 /\ timer.n >= 10)
       => ~timer.scheduled /\ timer.endTime = NoEndTime

\* ------------------------------------------------------------------------
\* Properties of the first apply and of a failed apply
\* ------------------------------------------------------------------------

\* C34: an apply that completes on a store whose signature is still the
\* empty string commits, whatever its partial: it stores the digest of its
\* snapshot, which is not the empty string, invokes the callback registered
\* with that snapshot, and writes the allowlisted limit and sorts that are
\* positive and non-empty.
C34_FirstApplyCommits ==
    (hist.outcome = "resolved" /\ hist.sign0 = "")
    => /\ Len(EventsOf(log, "sign")) = 1
       /\ stats.sign = sign(params)
       /\ stats.sign # ""
       /\ committed = params
       /\ SameValue(params, Snapshot(stats))
       /\ hist.reg
          => /\ Len(EventsOf(log, "callback")) = 1
             /\ observed = params
       /\ [i \in 1..Len(EventsOf(log, "set")) |-> EventsOf(log, "set")[i].key]
              = [i \in 1..Len(PersistCalls(stats, options)) |->
                     PersistCalls(stats, options)[i].k]

\* The first call of a store is apply({}), with a callback registered: it
\* has completed and the callback has the initial snapshot.
C34_Witness ==
    /\ ncalls = 1
    /\ hist.outcome = "resolved"
    /\ hist.sign0 = ""
    /\ hist.reg
    /\ observed = Snapshot(InitialStats(options))
    /\ Len(EventsOf(log, "set")) = 1

\* page, limit, search, sorts and filters are what they were before the last
\* apply that was not dropped: those of the apply before it, or those of the
\* construction.
FieldsAsBeforeCall ==
    IF hist.prev.outcome = "none"
    THEN SameValue(Snapshot(stats), Snapshot(InitialStats(options)))
    ELSE hist.same

\* C35, as stated: after an apply that rejected, in a digest or in the
\* callback, page, limit, search, sorts, filters and the signature are what
\* they were before the call, and the call wrote nothing to storage.
C35_FailedApplyLeavesStore ==
    hist.outcome \in {"digestFailed", "callbackThrew"}
    => /\ FieldsAsBeforeCall
       /\ stats.sign = hist.sign0
       /\ EventsOf(log, "set") = <<>>

\* What does hold: an apply that rejected wrote nothing to storage, and left
\* the signature as it was when a digest failed; the fields it merged stay
\* merged, and when the callback threw the signature is that of the merged
\* fields.
C35_FailedApplyKeepsMerge ==
    hist.outcome \in {"digestFailed", "callbackThrew"}
    => /\ SameValue(Snapshot(stats), params)
       /\ EventsOf(log, "set") = <<>>
       /\ hist.outcome = "digestFailed" => stats.sign = hist.sign0
       /\ hist.outcome = "callbackThrew" => stats.sign = sign(params)

\* C36, as stated: a parseResponse whose apply is dropped, because another
\* apply holds the lock, leaves the retained response, and so total, from,
\* to, pages, meta and records, as they were.
C36_DroppedResponseKeepsView ==
    [][\A r \in ResponseValues :
          (stats.locked /\ ResponseCall(r))
          => /\ response' = response
             /\ ResponseGetters(response') = ResponseGetters(response)]_vars

\* What does hold: a parseResponse whose apply is dropped leaves page, limit,
\* search, sorts and filters of the store, and gives the retained response
\* the fields of the new response all the same.
C36_DroppedResponseStillAssigned ==
    [][\A r \in ResponseValues :
          (stats.locked /\ ResponseCall(r))
          => /\ response' = ResponseAssign(response, r)
             /\ stats' = stats]_vars

\* ------------------------------------------------------------------------
\* Properties of encode with the filters
\* ------------------------------------------------------------------------

\* C37, as stated: the page, limit, search and sorts parameters of the query
\* that encode returns are those of the page, limit, search and sorts of the
\* state, whatever the filters hold.
C37_ReservedParametersFromState ==
    calc.op = "encode"
    => LET state == calc.arg
           query == calc.res.str
       IN  /\ ParamOf(query, "page") = Str(String(Prop(state, "page")))
           /\ ParamOf(query, "limit") = Str(String(Prop(state, "limit")))
           /\ ParamOf(query, "search") = Prop(state, "search")
           /\ ParamOf(query, "sorts") =
                  IF Len(Prop(state, "sorts").xs) > 0
                  THEN Str(encodeSorts(Prop(state, "sorts"))) ELSE Undefined

\* What does hold: the four parameters are those of the state when no
\* filters key is page, limit, search or sorts.
C37_ReservedParametersUnlessShadowed ==
    (calc.op = "encode" /\ KeysOf(Prop(calc.arg, "filters")) \cap ReservedKeys = {})
    => LET state == calc.arg
           query == calc.res.str
       IN  /\ ParamOf(query, "page") = Str(String(Prop(state, "page")))
           /\ ParamOf(query, "limit") = Str(String(Prop(state, "limit")))
           /\ ParamOf(query, "search") = Prop(state, "search")
           /\ ParamOf(query, "sorts") =
                  IF Len(Prop(state, "sorts").xs) > 0
                  THEN Str(encodeSorts(Prop(state, "sorts"))) ELSE Undefined

====
